---- MODULE Spec2Model ----
(***************************************************************************)
(* A model of the packet-stream decoders (PM4, HSA/AQL, UMSCH) and of the  *)
(* GPU virtual-memory page walk of the umr library.                        *)
(*                                                                         *)
(* 32-bit words are records [hi, lo] of two 16-bit halves, because the     *)
(* values of the model checker are 32-bit signed integers and packet       *)
(* headers use the top bits.                                               *)
(***************************************************************************)
EXTENDS Integers, Sequences, FiniteSets, TLC

\* ------------------------------------------------------------------------
\* Bounds of the exploration
\* ------------------------------------------------------------------------
MaxPkts == 2
MaxTail == 2
MaxCut == 4
MaxCalls == 2
MaxDepth == 3

\* ------------------------------------------------------------------------
\* Words
\* ------------------------------------------------------------------------
W(h, l) ==
    [hi |-> h, lo |-> l]

ZeroWord ==
    W(0, 0)

\* the concatenation of a sequence of sequences
RECURSIVE Flatten(_)
Flatten(ss) ==
    IF ss = <<>> THEN <<>> ELSE Head(ss) \o Flatten(Tail(ss))

\* all sequences over S of length 0..n
SeqUpTo(S, n) ==
    UNION {[1..k -> S] : k \in 0..n}

\* s, and s with its last 1..MaxCut words cut off
Truncations(s) ==
    {SubSeq(s, 1, Len(s) - k) : k \in 0..(IF Len(s) < MaxCut THEN Len(s) ELSE MaxCut)}

\* ------------------------------------------------------------------------
\* State
\* ------------------------------------------------------------------------
VARIABLES
    fmt,      \* the packet format of the buffer being decoded
    buf,      \* the caller's buffer: a sequence of 32-bit words
    tail,     \* what lies in the process's memory right after the buffer
    pc,       \* position of the caller: "decode", "ready", "crash", "hang", ...
    frames,   \* the decoder's call stack, innermost frame last
    result,   \* the value the outermost decode call returned
    allocs,   \* kind of every allocation made so far, indexed by its id
    live,     \* ids of the allocations not yet freed
    badfree,  \* a free() was given something that is not a live allocation
    oob,      \* a read outside the caller's buffer has happened
    errs,     \* number of err_msg() calls
    opts,     \* asic->options
    gmem,     \* GPU memory: the mapped regions, by their start address
    reads,    \* log of the umr_read_vram() calls issued
    regs,     \* the register pairs tracked during the PM4 decode, oldest first
    regids,   \* the allocation of each tracked pair
    pstream,  \* umr_packet_decode_buffer_ex() returned a stream object
    freed,    \* umr_packet_free() was called on it
    copy,     \* the shader object umr_packet_find_shader() handed out
    copyfreed,\* the caller has released that object
    ui,       \* the callbacks the last disassembly made, in order
    cont,     \* stream->cont: index of the node the last disassembly stopped at
    ncalls,   \* number of disassembly calls made
    vmctx,    \* the VM context: registers and options the page walk reads
    vmmem,    \* physical memory: table entries, the frames that can be accessed, the data written
    vmreq,    \* the arguments of the umr_access_vram() call
    vmpc,     \* position of the page walk: "call", "ai", "page", "pde", ...
    walk,     \* struct umr_vm_ai_state and the locals of the walk
    vmlog,    \* the backend accesses issued, in order
    vmpages,  \* the pages the do-loop has finished, in order
    vmret,    \* the value the call returned
    user_queue, \* asic->options.user_queue
    uqpc,     \* position of the user-queue client: "init", "parsed", "ready", ...
    retq,     \* the value umr_parse_clientid() returned
    nparse,   \* number of umr_init_clientid() calls made
    ring,     \* umr_packet_decode_ring_ex(): its arguments, the options and its locals
    sqcmds,   \* the SQ_CMD commands issued to the waves, in order
    ringdata, \* the buffer the queue is read into, a word per element
    stray,    \* stores made outside that buffer: <<word index, value>>
    ringps,   \* the stream umr_packet_decode_ring_ex() returns
    job_count, \* capture->sched_jobs.size()
    processed, \* how often postprocess() has run for each job index
    pp_thread, \* the worker threads: their arguments and how far they are
    pppc      \* position of post_process_capture(): "sort", "create", "join", ...

\* the state of the packet decoders
pktcore ==
    <<fmt, buf, tail, pc, frames, result, allocs, live, badfree, oob, errs,
      opts, gmem, reads, regs, regids, pstream, freed, copy, copyfreed, ui, cont, ncalls>>

\* the state of the page walk
vmcore ==
    <<vmctx, vmmem, vmreq, vmpc, walk, vmlog, vmpages, vmret>>

\* the state of the user-queue client
uqvars ==
    <<user_queue, uqpc, retq, nparse, ring, sqcmds, ringdata, stray, ringps>>

\* the state of the post-processing of a capture
jobvars ==
    <<job_count, processed, pp_thread, pppc>>

\* what a step of the page walk leaves alone
pktvars ==
    <<pktcore, uqvars, jobvars>>

\* what a step of a packet decoder leaves alone
vmvars ==
    <<vmcore, uqvars, jobvars>>

vars ==
    <<fmt, buf, tail, pc, frames, result, allocs, live, badfree, oob, errs,
      opts, gmem, reads, regs, regids, pstream, freed, copy, copyfreed, ui, cont, ncalls,
      vmctx, vmmem, vmreq, vmpc, walk, vmlog, vmpages, vmret,
      user_queue, uqpc, retq, nparse, ring, sqcmds, ringdata, stray, ringps,
      job_count, processed, pp_thread, pppc>>

\* ------------------------------------------------------------------------
\* The heap: calloc() hands out the next id, free() retires it
\* ------------------------------------------------------------------------
NullStream ==
    [null |-> TRUE, nodes |-> <<>>]

Stream(ns) ==
    [null |-> FALSE, nodes |-> ns]

\* ids of n allocations made one after the other, given the kinds so far
NewId(al, n) ==
    Len(al) + n

\* ------------------------------------------------------------------------
\* 64-bit addresses: four 16-bit halves, least significant first
\* ------------------------------------------------------------------------
A64(a0, a1, a2, a3) ==
    <<a0, a1, a2, a3>>

\* a + b modulo 2^64
Add64(a, b) ==
    LET s1 == a[1] + b[1]
        s2 == a[2] + b[2] + s1 \div 65536
        s3 == a[3] + b[3] + s2 \div 65536
        s4 == a[4] + b[4] + s3 \div 65536
    IN  <<s1 % 65536, s2 % 65536, s3 % 65536, s4 % 65536>>

\* ------------------------------------------------------------------------
\* GPU memory as the translation engine presents it to the decoders
\* ------------------------------------------------------------------------
NoMem ==
    [a \in {} |-> <<>>]

\* umr_read_vram(addr, 4 * ndw bytes) succeeds when the range is mapped
ReadOk(a, ndw) ==
    /\ a \in DOMAIN gmem
    /\ ndw <= Len(gmem[a])

ReadData(a, ndw) ==
    SubSeq(gmem[a], 1, ndw)

ReadRec(a, ndw, vmid) ==
    [addr |-> a, ndw |-> ndw, vmid |-> vmid]

\* umr_compute_shader_size() is not part of the sources at hand: the model
\* takes the size it reports to be a fixed one
ComputedShaderSize ==
    64

ShaderSize ==
    IF opts.no_follow_shader THEN 1 ELSE ComputedShaderSize

\* ------------------------------------------------------------------------
\* Register pairs
\* ------------------------------------------------------------------------
\* the order strcmp() gives the register names the model uses
RegRank(name) ==
    CASE name = "mmCOMPUTE_PGM_HI" -> 1
      [] name = "mmCOMPUTE_PGM_LO" -> 2
      [] name = "mmCOMPUTE_PGM_RSRC1" -> 3
      [] name = "mmCOMPUTE_PGM_RSRC2" -> 4
      [] name = "mmCOMPUTE_PGM_RSRC3" -> 5
      [] name = "mmSPI_SHADER_PGM_HI_PS" -> 7
      [] name = "mmSPI_SHADER_PGM_LO_PS" -> 8
      [] OTHER -> 6

RegPair(name, value, vmid, addr) ==
    [regname |-> name, value |-> value, vmid |-> vmid, addr |-> addr, used |-> 0]

\* index of the first pair called name, 0 when there is none
umr_shader_find_regpair(head, name) ==
    IF \E i \in 1..Len(head) : head[i].regname = name
    THEN CHOOSE i \in 1..Len(head) :
             /\ head[i].regname = name
             /\ \A j \in 1..(i - 1) : head[j].regname # name
    ELSE 0

\* every write adds a pair, an earlier pair of that name being kept
umr_shader_add_reg_pair_append(head, name, value, vmid, addr) ==
    Append(head, RegPair(name, value, vmid, addr))

\* append the pair, or overwrite the pair of that name
umr_shader_add_reg_pair(head, name, value, vmid, addr) ==
    LET i == umr_shader_find_regpair(head, name)
    IN  IF i = 0
        THEN Append(head, RegPair(name, value, vmid, addr))
        ELSE [head EXCEPT ![i] = RegPair(name, value, vmid, addr)]

\* insertion of p into a list sorted by name
RECURSIVE SortedInsert(_, _)
SortedInsert(s, p) ==
    IF s = <<>> THEN <<p>>
    ELSE IF RegRank(p.regname) < RegRank(Head(s).regname)
         THEN <<p>> \o s
         ELSE <<Head(s)>> \o SortedInsert(Tail(s), p)

\* a copy that keeps the order of the list
umr_copy_regpairs_unsorted(head) ==
    head

\* the copy is an array sorted by register name
RECURSIVE umr_copy_regpairs(_)
umr_copy_regpairs(head) ==
    IF head = <<>> THEN <<>>
    ELSE SortedInsert(umr_copy_regpairs(SubSeq(head, 1, Len(head) - 1)),
                      head[Len(head)])

\* the tail of umr_packet_decode_buffer_ex(): a decoder that returned NULL
\* is reported, and the stream object (allocation 1) is released
WrapperErrs(ret) ==
    IF ret.null THEN 1 ELSE 0

WrapperFrees(ret) ==
    IF ret.null THEN {1} ELSE {}

\* ------------------------------------------------------------------------
\* HSA / AQL decoder
\* ------------------------------------------------------------------------
\* the buffer seen as 16-bit words: halfword i (0-based)
Half(i) ==
    IF i % 2 = 0 THEN buf[i \div 2 + 1].lo ELSE buf[i \div 2 + 1].hi

HsaPktHalves ==
    32

\* parse_kernel_object(): what a kernel-dispatch packet adds to its node
\* given the ids of the next allocations
parse_kernel_object(kobj, karg, base) ==
    IF ~ReadOk(kobj, 16)
    THEN [kinds |-> <<>>, keep |-> {}, shader |-> <<>>, kernarg |-> 0,
          reads |-> <<ReadRec(kobj, 16, 0)>>, errs |-> 1]
    ELSE LET ko == ReadData(kobj, 16)
             entry == Add64(kobj, A64(ko[5].lo, ko[5].hi, ko[6].lo, ko[6].hi))
             ksize == ko[3].hi * 65536 + ko[3].lo
             rp1 == umr_shader_add_reg_pair(<<>>, "mmCOMPUTE_PGM_RSRC1", ko[13], 0, kobj)
             rp2 == umr_shader_add_reg_pair(rp1, "mmCOMPUTE_PGM_RSRC2", ko[14], 0, kobj)
             rp3 == umr_shader_add_reg_pair(rp2, "mmCOMPUTE_PGM_RSRC3", ko[12], 0, kobj)
                  pgm == [id |-> base + 4, vmid |-> 0, addr |-> entry,
                     size |-> ShaderSize, type |-> "compute",
                     rid |-> base + 5, regs |-> umr_copy_regpairs(rp3)]
             kok == ksize % 4 = 0 /\ ReadOk(karg, ksize \div 4)
         IN  [kinds |-> <<"regpair", "regpair", "regpair", "shader", "regs", "kernarg">>,
              keep |-> {base + 4, base + 5, base + 6},
              shader |-> <<pgm>>, kernarg |-> base + 6,
              reads |-> <<ReadRec(kobj, 16, 0), [addr |-> karg, ndw |-> ksize \div 4, vmid |-> 0]>>,
              errs |-> IF kok THEN 0 ELSE 1]

NoKernel ==
    [kinds |-> <<>>, keep |-> {}, shader |-> <<>>, kernarg |-> 0, reads |-> <<>>, errs |-> 0]

\* one iteration of the while (nwords) loop of umr_hsa_decode_stream, or its
\* return; nwords counts 16-bit words
umr_hsa_decode_stream ==
    /\ UNCHANGED vmvars
    /\ pc = "decode"
    /\ fmt = "hsa"
    /\ LET f == frames[1]
           t16 == Half(f.pos)
           type == t16 % 256
           words == [i \in 1..(HsaPktHalves - 1) |-> Half(f.pos + i)]
           k == IF type = 2
                THEN parse_kernel_object(A64(words[16], words[17], words[18], words[19]),
                                         A64(words[20], words[21], words[22], words[23]),
                                         NewId(allocs, 1))
                ELSE NoKernel
           more == f.nwords - HsaPktHalves # 0
           nxt == NewId(allocs, 1) + Len(k.kinds) + 1
           node == [id |-> f.cur, header |-> t16, type |-> type, nwords |-> HsaPktHalves,
                    wid |-> NewId(allocs, 1), words |-> words,
                    shader |-> k.shader, kernarg |-> k.kernarg]
       IN  IF f.nwords = 0
           THEN /\ pc' = "ready"
                /\ result' = Stream(IF f.nodes = <<>>
                                    THEN <<[id |-> f.cur, header |-> 0, type |-> 0,
                                            nwords |-> 0, wid |-> 0, words |-> <<>>,
                                            shader |-> <<>>, kernarg |-> 0]>>
                                    ELSE f.nodes)
                /\ pstream' = TRUE
                /\ frames' = <<>>
                /\ UNCHANGED <<allocs, live, reads, errs>>
           ELSE IF f.nwords < HsaPktHalves
           THEN \* not enough stream for the packet: drop the node and return
                LET ret == IF f.nodes = <<>> THEN NullStream ELSE Stream(f.nodes)
                IN  /\ pc' = "ready"
                    /\ result' = ret
                    /\ pstream' = ~ret.null
                    /\ live' = (live \ {f.cur}) \ WrapperFrees(ret)
                    /\ errs' = errs + WrapperErrs(ret)
                    /\ frames' = <<>>
                    /\ UNCHANGED <<allocs, reads>>
           ELSE /\ allocs' = allocs \o <<"words">> \o k.kinds
                                \o (IF more THEN <<"node">> ELSE <<>>)
                /\ live' = live \cup {NewId(allocs, 1)} \cup k.keep
                                \cup (IF more THEN {nxt} ELSE {})
                /\ reads' = reads \o k.reads
                /\ errs' = errs + k.errs
                /\ frames' = <<[f EXCEPT !.pos = f.pos + HsaPktHalves,
                                         !.nwords = f.nwords - HsaPktHalves,
                                         !.nodes = Append(f.nodes, node),
                                         !.cur = IF more THEN nxt ELSE 0]>>
                /\ UNCHANGED <<pc, result, pstream>>
    /\ UNCHANGED <<fmt, buf, tail, badfree, oob, opts, gmem, regs, regids, freed, copy, copyfreed, ui, cont, ncalls>>

\* ------------------------------------------------------------------------
\* PM4 decoder: packet headers
\* ------------------------------------------------------------------------
Pm4Type(w) ==
    w.hi \div 16384

\* ((header >> 16) + 1) & 0x3FFF, less one for a type-2 packet; the result
\* -1 stands for the uint32_t 0xFFFFFFFF a type-2 count of 0x3FFF wraps to
Pm4NWords(w) ==
    LET n == (w.hi + 1) % 16384
    IN  IF Pm4Type(w) = 2 THEN n - 1 ELSE n

Pm4Opcode(w) ==
    IF Pm4Type(w) = 3 THEN (w.lo \div 256) % 256 ELSE 0

Pm4Pkt0Off(w) ==
    IF Pm4Type(w) = 0 THEN w.lo ELSE 0

\* fetch_word(): word off of the node's copy, zero when out of bounds
fetch_word(words, off) ==
    IF off >= Len(words) THEN ZeroWord ELSE words[off + 1]

\* the register database is not part of the sources at hand: the names of
\* the register offsets the model's packets write
umr_reg_name(addr) ==
    CASE addr = 11272 -> "mmSPI_SHADER_PGM_LO_PS"
      [] addr = 11273 -> "mmSPI_SHADER_PGM_HI_PS"
      [] addr = 11788 -> "mmCOMPUTE_PGM_LO"
      [] addr = 11789 -> "mmCOMPUTE_PGM_HI"
      [] addr = 11794 -> "mmCOMPUTE_PGM_RSRC1"
      [] addr = 15777 -> "mmUVD_LMI_RBC_IB_VMID"
      [] addr = 15778 -> "mmUVD_RBC_IB_SIZE"
      [] addr = 15976 -> "mmUVD_LMI_RBC_IB_64BIT_BAR_HIGH"
      [] addr = 15977 -> "mmUVD_LMI_RBC_IB_64BIT_BAR_LOW"
      [] OTHER -> "mmOTHER"

\* strstr(name, pat) # NULL for the names and patterns of the model
NameContains(name, pat) ==
    \/ name = pat
    \/ name = "mmCOMPUTE_PGM_LO" /\ pat = "COMPUTE_PGM_LO"
    \/ name = "mmCOMPUTE_PGM_HI" /\ pat = "COMPUTE_PGM_HI"
    \/ name = "mmSPI_SHADER_PGM_LO_PS" /\ pat = "SPI_SHADER_PGM_LO_PS"
    \/ name = "mmSPI_SHADER_PGM_HI_PS" /\ pat = "SPI_SHADER_PGM_HI_PS"

\* index of the first pair whose name contains pat, 0 when there is none
umr_shader_find_partial_regpair(head, pat) ==
    IF \E i \in 1..Len(head) : NameContains(head[i].regname, pat)
    THEN CHOOSE i \in 1..Len(head) :
             /\ NameContains(head[i].regname, pat)
             /\ \A j \in 1..(i - 1) : ~NameContains(head[j].regname, pat)
    ELSE 0

\* address of byte 4 * k after a
AddrPlus(a, k) ==
    Add64(a, A64((4 * k) % 65536, (4 * k) \div 65536, 0, 0))

\* the register writes of a SET_*_REG packet: the first word is the offset
\* of the first register, the others are consecutive values
SetRegWrites(words, base, vmid, at) ==
    [n \in 1..(IF Len(words) = 0 THEN 0 ELSE Len(words) - 1) |->
        [reg |-> fetch_word(words, 0).lo + base + n - 1,
         value |-> fetch_word(words, n), vmid |-> vmid,
         addr |-> AddrPlus(at, n + 1)]]

\* the register writes of a SET_*_REG_PAIRS packet: (offset, value) doublets
SetRegPairsWrites(words, base, vmid, at) ==
    [k \in 1..((Len(words) + 1) \div 2) |->
        [reg |-> fetch_word(words, 2 * (k - 1)).lo + base,
         value |-> fetch_word(words, 2 * (k - 1) + 1), vmid |-> vmid,
         addr |-> AddrPlus(at, 1 + 2 * (k - 1))]]

\* the register writes of a SET_SH_REG_PAIRS_PACKED packet: after a count
\* word, triplets of two 16-bit offsets and two values
SetRegPackedWrites(words, vmid, at) ==
    [k \in 1..(2 * ((Len(words) + 1) \div 3)) |->
        LET t == (k - 1) \div 2
            m == (k - 1) % 2
            n == 1 + 3 * t
        IN  [reg |-> 11264 + (IF m = 0 THEN fetch_word(words, n).lo
                                        ELSE fetch_word(words, n).hi),
             value |-> fetch_word(words, n + m + 1), vmid |-> vmid,
             addr |-> AddrPlus(at, 3 + 3 * t + m)]]

\* the highest word offset a packet's register decoding fetches, plus one
RegFetchEnd(op, n) ==
    CASE op \in {105, 121, 118, 155} -> IF n = 0 THEN 1 ELSE n
      [] op \in {184, 186, 190} -> 2 * ((n + 1) \div 2)
      [] op \in {187, 188, 189} -> IF n <= 1 THEN 0 ELSE 1 + 3 * ((n + 1) \div 3)
      [] OTHER -> 0

\* the register writes parse_pm4() makes for a type-3 packet
RegWrites(op, words, vmid, at) ==
    CASE op = 105 -> SetRegWrites(words, 40960, vmid, at)
      [] op = 121 -> SetRegWrites(words, 49152, vmid, at)
      [] op \in {118, 155} -> SetRegWrites(words, 11264, vmid, at)
      [] op = 184 -> SetRegPairsWrites(words, 40960, vmid, at)
      [] op = 186 -> SetRegPairsWrites(words, 11264, vmid, at)
      [] op = 190 -> SetRegPairsWrites(words, 49152, vmid, at)
      [] op \in {187, 188, 189} -> SetRegPackedWrites(words, vmid, at)
      [] OTHER -> <<>>

\* the tracker after the writes, in order
RECURSIVE ApplyWrites(_, _)
ApplyWrites(head, ws) ==
    IF ws = <<>> THEN head
    ELSE ApplyWrites(umr_shader_add_reg_pair(head, umr_reg_name(Head(ws).reg),
                                             Head(ws).value, Head(ws).vmid,
                                             Head(ws).addr),
                     Tail(ws))

\* the shader table of process_shaders(): compute first, then the draw stages
ShaderTypes ==
    <<[hi |-> "COMPUTE_PGM_HI", lo |-> "COMPUTE_PGM_LO", type |-> "compute"],
      [hi |-> "SPI_SHADER_PGM_HI_VS", lo |-> "SPI_SHADER_PGM_LO_VS", type |-> "vertex"],
      [hi |-> "SPI_SHADER_PGM_HI_PS", lo |-> "SPI_SHADER_PGM_LO_PS", type |-> "pixel"],
      [hi |-> "SPI_SHADER_PGM_HI_ES", lo |-> "SPI_SHADER_PGM_LO_ES", type |-> "es"],
      [hi |-> "SPI_SHADER_PGM_HI_GS", lo |-> "SPI_SHADER_PGM_LO_GS", type |-> "gs"],
      [hi |-> "SPI_SHADER_PGM_HI_HS", lo |-> "SPI_SHADER_PGM_LO_HS", type |-> "hs"],
      [hi |-> "SPI_SHADER_PGM_HI_LS", lo |-> "SPI_SHADER_PGM_LO_LS", type |-> "ls"]>>

\* (hi << 32) | lo: the two registers taken as the address itself
ShaderAddr_unshifted(hi, lo) ==
    A64(lo.lo, lo.hi, hi.lo, hi.hi)

\* (hi << 40) | (lo << 8) as a 64-bit address
ShaderAddr(hi, lo) ==
    A64((lo.lo % 256) * 256,
        lo.lo \div 256 + (lo.hi % 256) * 256,
        lo.hi \div 256 + (hi.lo % 256) * 256,
        hi.lo \div 256 + (hi.hi % 256) * 256)

\* both halves of the address must be programmed
AddrProgrammed_both(hi, lo) ==
    hi # ZeroWord /\ lo # ZeroWord

\* if (hi->value || lo->value)
AddrProgrammed(hi, lo) ==
    hi # ZeroWord \/ lo # ZeroWord

\* process_shaders() over the table entries xs: the tracker (with the used
\* marks), the shaders found, each with the id of its two allocations
RECURSIVE process_shaders(_, _, _, _, _)
process_shaders(head, xs, vmid, base, found) ==
    IF xs = <<>> THEN [regs |-> head, shader |-> found]
    ELSE LET t == ShaderTypes[Head(xs)]
             hi == umr_shader_find_partial_regpair(head, t.hi)
             lo == umr_shader_find_partial_regpair(head, t.lo)
         IN  IF /\ t.type \in opts.shader_enable
                /\ hi # 0
                /\ lo # 0
                /\ AddrProgrammed(head[hi].value, head[lo].value)
             THEN LET h2 == [head EXCEPT ![hi].used = 1, ![lo].used = 1]
                      pgm == [id |-> base + 2 * Len(found) + 1, vmid |-> vmid,
                              addr |-> ShaderAddr(head[hi].value, head[lo].value),
                              size |-> ShaderSize, type |-> t.type,
                              rid |-> base + 2 * Len(found) + 2,
                              regs |-> umr_copy_regpairs(h2)]
                  IN  process_shaders(h2, Tail(xs), vmid, base, Append(found, pgm))
             ELSE process_shaders(head, Tail(xs), vmid, base, found)

ComputeOps ==
    {21, 22, 167, 170, 173}

DrawOps ==
    {76, 77, 37, 39, 45, 56}

IbOps ==
    {63, 51}

\* ------------------------------------------------------------------------
\* PM4 decoder: the stream loop
\* ------------------------------------------------------------------------
\* bitwise or of two 16-bit values
RECURSIVE Or16(_, _)
Or16(a, b) ==
    IF a = 0 THEN b
    ELSE IF b = 0 THEN a
    ELSE 2 * Or16(a \div 2, b \div 2) + (IF a % 2 = 1 \/ b % 2 = 1 THEN 1 ELSE 0)

IsUvdReg(name) ==
    \/ NameContains(name, "mmUVD_LMI_RBC_IB_VMID")
    \/ NameContains(name, "mmUVD_LMI_RBC_IB_64BIT_BAR_LOW")
    \/ NameContains(name, "mmUVD_LMI_RBC_IB_64BIT_BAR_HIGH")
    \/ NameContains(name, "mmUVD_RBC_IB_SIZE")

NoUvd ==
    [n |-> {}, ndw |-> 0, vmid |-> 0, addr |-> A64(0, 0, 0, 0)]

\* the UVD IB registers a type-0 write updates: uvd_ib after the packet
UvdUpdate(u, name, w) ==
    LET u1 == CASE NameContains(name, "mmUVD_LMI_RBC_IB_VMID") ->
                       [u EXCEPT !.vmid = w.hi * 65536 + w.lo, !.n = @ \cup {1}]
                [] NameContains(name, "mmUVD_LMI_RBC_IB_64BIT_BAR_LOW") ->
                       [u EXCEPT !.addr = A64(Or16(@[1], w.lo), Or16(@[2], w.hi), @[3], @[4]),
                                 !.n = @ \cup {2}]
                [] NameContains(name, "mmUVD_LMI_RBC_IB_64BIT_BAR_HIGH") ->
                       [u EXCEPT !.addr = A64(@[1], @[2], Or16(@[3], w.lo), Or16(@[4], w.hi)),
                                 !.n = @ \cup {4}]
                [] NameContains(name, "mmUVD_RBC_IB_SIZE") ->
                       [u EXCEPT !.ndw = (w.hi % 16384) * 65536 + w.lo, !.n = @ \cup {8}]
                [] OTHER -> u
    IN  IF u1.n = {2, 4, 8} THEN [u1 EXCEPT !.vmid = 0, !.n = {1, 2, 4, 8}] ELSE u1

\* 8 MiB, the largest indirect buffer parse_pm4() follows, in 32-bit words
MaxIbDwords ==
    2097152

\* the indirect buffer an INDIRECT_BUFFER packet points to, when parse_pm4()
\* follows it
IbRef(words, vmid) ==
    LET w0 == fetch_word(words, 0)
        w1 == fetch_word(words, 1)
        w2 == fetch_word(words, 2)
        chained == /\ ~opts.no_follow_chained_ib
                   /\ Len(words) = 3
                   /\ (w2.hi \div 16) % 2 = 1
        ndw == w2.lo + 65536 * (w2.hi % 16)
        tvmid == (w2.hi \div 256) % 16
    IN  [follow |-> (~opts.no_follow_ib \/ chained) /\ ndw <= MaxIbDwords,
         addr |-> A64(w0.lo - (w0.lo % 4), w0.hi, w1.lo, 0),
         ndw |-> ndw,
         vmid |-> IF tvmid = 0 THEN vmid ELSE tvmid,
         fetched |-> IF ~opts.no_follow_ib \/ chained THEN 3 ELSE 0]

Pm4Node(id, hdr, wid, words) ==
    [id |-> id, header |-> hdr, pkttype |-> Pm4Type(hdr), opcode |-> Pm4Opcode(hdr),
     n_words |-> Len(words), pkt0off |-> Pm4Pkt0Off(hdr), wid |-> wid, words |-> words,
     shader |-> <<>>, ib |-> NullStream, invalid |-> FALSE]

Pm4Frame(words, ndw, vmid, from, cur, bufid) ==
    [words |-> words, pos |-> 0, nwords |-> ndw, vmid |-> vmid, from |-> from,
     nodes |-> <<>>, cur |-> cur, uvd |-> NoUvd, bufid |-> bufid,
     pend |-> Pm4Node(0, ZeroWord, 0, <<>>), via |-> "none"]

Top ==
    frames[Len(frames)]

\* the frame after node is complete: skip the packet, and allocate the next
\* node (id nxt) when words remain
Pm4Advance(f, node, nxt) ==
    LET left == f.nwords - (1 + node.n_words)
    IN  [f EXCEPT !.pos = f.pos + 1 + node.n_words,
                  !.nwords = left,
                  !.nodes = Append(f.nodes, node),
                  !.cur = IF left # 0 THEN nxt ELSE 0,
                  !.via = "none"]

Pm4More(f, n) ==
    f.nwords - (1 + n) # 0

\* one iteration of the while (nwords) loop of umr_pm4_decode_stream for a
\* packet that fits, up to the call of the decoder on an indirect buffer
pm4_packet ==
    /\ UNCHANGED vmvars
    /\ pc = "decode"
    /\ fmt = "pm4"
    /\ Top.via = "none"
    /\ Top.nwords # 0
    /\ LET f == Top
           d == Len(frames)
           hdr == f.words[f.pos + 1]
           n == Pm4NWords(hdr)
           at == AddrPlus(f.from, f.pos)
       IN  /\ f.nwords >= 1 + n
           /\ IF n < 0
              THEN \* a type-2 header with count 0x3FFF: 4 * 0xFFFFFFFF bytes are copied
                   /\ pc' = "crash"
                   /\ UNCHANGED <<frames, allocs, live, errs, reads, regs, regids>>
              ELSE LET words == SubSeq(f.words, f.pos + 2, f.pos + 1 + n)
                       a0 == IF n > 0 THEN allocs \o <<"words">> ELSE allocs
                       wid == IF n > 0 THEN Len(a0) ELSE 0
                       l0 == IF n > 0 THEN live \cup {wid} ELSE live
                       node == Pm4Node(f.cur, hdr, wid, words)
                       op == node.opcode
                       ib == IbRef(words, f.vmid)
                       u == UvdUpdate(f.uvd, umr_reg_name(node.pkt0off), fetch_word(words, 0))
                       isib == node.pkttype = 3 /\ op \in IbOps /\ ib.follow
                       isuvd == node.pkttype = 0 /\ ~opts.no_follow_ib /\ u.n = {1, 2, 4, 8}
                       ref == IF isib THEN ib ELSE u
                       fend == CASE node.pkttype = 3 /\ op \in IbOps -> ib.fetched
                                 [] node.pkttype = 3 -> RegFetchEnd(op, n)
                                 [] node.pkttype = 0 ->
                                        IF IsUvdReg(umr_reg_name(node.pkt0off)) THEN 1 ELSE 0
                                 [] OTHER -> 0
                       bad == fend > n
                       nd1 == [node EXCEPT !.invalid = bad]
                       f1 == IF node.pkttype = 0 THEN [f EXCEPT !.uvd = u] ELSE f
                   IN  IF isib \/ isuvd
                       THEN LET bufid == Len(a0) + 1
                            IN  /\ Len(frames) < MaxDepth
                                /\ reads' = Append(reads, ReadRec(ref.addr, ref.ndw, ref.vmid))
                                /\ regs' = regs
                                /\ regids' = regids
                                /\ IF ReadOk(ref.addr, ref.ndw)
                                   THEN /\ allocs' = a0 \o <<"buf", "node">>
                                        /\ live' = l0 \cup {bufid, bufid + 1}
                                        /\ errs' = errs + (IF bad THEN 1 ELSE 0)
                                        /\ frames' = [frames EXCEPT ![d] =
                                                         [f1 EXCEPT !.pend = nd1,
                                                                    !.via = IF isib THEN "ib" ELSE "uvd"]]
                                                      \o <<Pm4Frame(ReadData(ref.addr, ref.ndw), ref.ndw,
                                                                    ref.vmid, ref.addr, bufid + 1, bufid)>>
                                   ELSE /\ allocs' = a0 \o <<"buf">>
                                                       \o (IF Pm4More(f, n) THEN <<"node">> ELSE <<>>)
                                        /\ live' = l0 \cup (IF Pm4More(f, n) THEN {bufid + 1} ELSE {})
                                        /\ errs' = errs + 1 + (IF bad THEN 1 ELSE 0)
                                        /\ frames' = [frames EXCEPT ![d] =
                                                         Pm4Advance([f1 EXCEPT !.uvd = IF isuvd THEN NoUvd ELSE @],
                                                                    nd1, bufid + 1)]
                                /\ pc' = pc
                       ELSE LET r1 == IF node.pkttype = 3
                                      THEN ApplyWrites(regs, RegWrites(op, words, f.vmid, at))
                                      ELSE regs
                                nnew == Len(r1) - Len(regs)
                                a1 == a0 \o [i \in 1..nnew |-> "regpair"]
                                ps == IF node.pkttype = 3 /\ op \in ComputeOps
                                      THEN process_shaders(r1, <<1>>, f.vmid, Len(a1), <<>>)
                                      ELSE IF node.pkttype = 3 /\ op \in DrawOps
                                      THEN process_shaders(r1, <<2, 3, 4, 5, 6, 7>>, f.vmid, Len(a1), <<>>)
                                      ELSE [regs |-> r1, shader |-> <<>>]
                                a2 == a1 \o Flatten([i \in 1..Len(ps.shader) |-> <<"shader", "regs">>])
                                more == Pm4More(f, n)
                            IN  /\ regs' = ps.regs
                                /\ regids' = regids \o [i \in 1..nnew |-> Len(a0) + i]
                                /\ allocs' = a2 \o (IF more THEN <<"node">> ELSE <<>>)
                                /\ live' = l0 \cup ((Len(a0) + 1)..Len(a2))
                                               \cup (IF more THEN {Len(a2) + 1} ELSE {})
                                /\ errs' = errs + (IF bad THEN 1 ELSE 0)
                                /\ frames' = [frames EXCEPT ![d] =
                                                 Pm4Advance(f1, [nd1 EXCEPT !.shader = ps.shader],
                                                            Len(a2) + 1)]
                                /\ reads' = reads
                                /\ pc' = pc
    /\ UNCHANGED <<fmt, buf, tail, result, badfree, oob, opts, gmem, pstream, freed,
                   copy, copyfreed, ui, cont, ncalls>>

\* umr_pm4_decode_stream returns: the loop ended, or the next packet does
\* not fit in the words left.  The caller is umr_packet_decode_buffer_ex
\* for the outermost call, and the packet that referred to the indirect
\* buffer otherwise.
pm4_return ==
    /\ UNCHANGED vmvars
    /\ pc = "decode"
    /\ fmt = "pm4"
    /\ Top.via = "none"
    /\ LET f == Top
           d == Len(frames)
           cut == f.nwords # 0
           ret == IF cut
                  THEN IF f.nodes = <<>> THEN NullStream ELSE Stream(f.nodes)
                  ELSE Stream(IF f.nodes = <<>>
                              THEN <<Pm4Node(f.cur, ZeroWord, 0, <<>>)>> ELSE f.nodes)
           l1 == IF cut THEN live \ {f.cur} ELSE live
       IN  /\ cut => f.nwords < 1 + Pm4NWords(f.words[f.pos + 1])
           /\ IF d = 1
              THEN /\ pc' = "ready"
                   /\ result' = ret
                   /\ pstream' = ~ret.null
                   /\ frames' = <<>>
                   /\ live' = (IF cut THEN l1 ELSE l1 \ {regids[i] : i \in 1..Len(regids)})
                                  \ WrapperFrees(ret)
                   /\ errs' = errs + WrapperErrs(ret)
                   /\ UNCHANGED allocs
              ELSE LET p == frames[d - 1]
                       node == [p.pend EXCEPT !.ib = ret]
                       more == Pm4More(p, node.n_words)
                   IN  IF ret.null
                       THEN \* ps->ib->parent = ps with ps->ib NULL
                            /\ pc' = "crash"
                            /\ live' = l1
                            /\ UNCHANGED <<result, pstream, frames, allocs, errs>>
                       ELSE /\ allocs' = allocs \o (IF more THEN <<"node">> ELSE <<>>)
                            /\ live' = (l1 \ {f.bufid})
                                           \cup (IF more THEN {Len(allocs) + 1} ELSE {})
                            /\ frames' = Append(SubSeq(frames, 1, d - 2),
                                                Pm4Advance([p EXCEPT !.uvd = IF p.via = "uvd"
                                                                              THEN NoUvd ELSE @],
                                                           node, Len(allocs) + 1))
                            /\ UNCHANGED <<pc, result, pstream, errs>>
    /\ UNCHANGED <<fmt, buf, tail, badfree, oob, opts, gmem, reads, regs, regids, freed, copy, copyfreed, ui, cont, ncalls>>

\* ------------------------------------------------------------------------
\* UMSCH decoder
\* ------------------------------------------------------------------------
UmschType(w) ==
    w.lo % 16

UmschOpcode(w) ==
    (w.lo \div 16) % 256

\* bits 19:12 of the header
UmschLenField(w) ==
    (w.lo \div 4096) + 16 * (w.hi % 16)

\* the node length the decoder settles on for a header
UmschNwords(w) ==
    IF UmschType(w) = 1
    THEN IF UmschOpcode(w) <= 12 THEN 64 ELSE UmschLenField(w)
    ELSE 4

\* the word at index i (0-based) of the memory that starts at the buffer
MemAt(i) ==
    IF i < Len(buf) THEN buf[i + 1] ELSE tail[i - Len(buf) + 1]

\* one iteration of the while (nwords) loop of umr_umsch_decode_stream, or
\* its return once nwords is zero.  nwords is kept as the two's-complement
\* representative of the uint32_t: -k stands for 2^32 - k, and the code only
\* tests it against zero.
umr_umsch_decode_stream ==
    /\ UNCHANGED vmvars
    /\ pc = "decode"
    /\ fmt = "umsch"
    /\ LET f == frames[1]
           hdr == MemAt(f.pos)
           n == UmschNwords(hdr)
           last == f.pos + n
           node == [id |-> f.cur, header_dw |-> hdr, type |-> UmschType(hdr),
                    opcode |-> UmschOpcode(hdr), nwords |-> n,
                    wid |-> NewId(allocs, 1),
                    words |-> [i \in 1..n |-> MemAt(f.pos + i)]]
       IN  IF f.nwords = 0
           THEN /\ pc' = "ready"
                /\ result' = Stream(IF f.nodes = <<>>
                                    THEN <<[id |-> f.cur, header_dw |-> ZeroWord,
                                            type |-> 0, opcode |-> 0, nwords |-> 0,
                                            wid |-> 0, words |-> <<>>]>>
                                    ELSE f.nodes)
                /\ pstream' = TRUE
                /\ frames' = <<>>
                /\ UNCHANGED <<allocs, live, oob>>
           ELSE IF last >= Len(buf) + Len(tail)
           THEN \* the header or the copied words lie in unmapped memory
                /\ pc' = "crash"
                /\ oob' = TRUE
                /\ UNCHANGED <<result, pstream, frames, allocs, live>>
           ELSE IF n = 0
           THEN \* nothing is consumed: the loop allocates nodes for ever
                /\ pc' = "hang"
                /\ UNCHANGED <<result, pstream, frames, allocs, live, oob>>
           ELSE /\ oob' = (oob \/ last >= Len(buf))
                /\ allocs' = allocs \o <<"words">>
                                \o (IF f.nwords - n # 0 THEN <<"node">> ELSE <<>>)
                /\ live' = live \cup {NewId(allocs, 1)}
                                \cup (IF f.nwords - n # 0 THEN {NewId(allocs, 2)} ELSE {})
                /\ frames' = <<[f EXCEPT !.pos = last,
                                         !.nwords = f.nwords - n,
                                         !.nodes = Append(f.nodes, node),
                                         !.cur = IF f.nwords - n # 0
                                                 THEN NewId(allocs, 2) ELSE 0]>>
                /\ UNCHANGED <<pc, result, pstream>>
    /\ UNCHANGED <<fmt, buf, tail, badfree, errs, opts, gmem, reads, regs, regids, freed, copy, copyfreed, ui, cont, ncalls>>

\* ------------------------------------------------------------------------
\* Releasing a stream
\* ------------------------------------------------------------------------
\* the pointers a list of shaders hands to free(), in order; 0 is NULL
RECURSIVE FreeShaders(_)
FreeShaders(sh) ==
    IF sh = <<>> THEN <<>>
    ELSE <<Head(sh).rid, Head(sh).id>> \o FreeShaders(Tail(sh))

\* umr_free_pm4_stream(): the pointers handed to free(), in order
RECURSIVE umr_free_pm4_stream(_)
umr_free_pm4_stream(st) ==
    IF st.null \/ st.nodes = <<>> THEN <<>>
    ELSE LET n == Head(st.nodes)
         IN  umr_free_pm4_stream(n.ib) \o FreeShaders(n.shader) \o <<n.wid, n.id>>
                \o umr_free_pm4_stream(Stream(Tail(st.nodes)))

\* umr_free_hsa_stream(): the pointers handed to free(), in order
RECURSIVE umr_free_hsa_stream(_)
umr_free_hsa_stream(st) ==
    IF st.null \/ st.nodes = <<>> THEN <<>>
    ELSE LET n == Head(st.nodes)
         IN  FreeShaders(n.shader) \o <<n.kernarg, n.id>>
                \o umr_free_hsa_stream(Stream(Tail(st.nodes)))

\* umr_free_umsch_stream(): the pointers handed to free(), in order
RECURSIVE umr_free_umsch_stream(_)
umr_free_umsch_stream(st) ==
    IF st.null \/ st.nodes = <<>> THEN <<>>
    ELSE LET n == Head(st.nodes)
         IN  <<n.wid, n.id>> \o umr_free_umsch_stream(Stream(Tail(st.nodes)))

\* free() of the pointers ps in order, from the live set l: the live set
\* left, and whether a pointer was not a live allocation
RECURSIVE FreeAll(_, _, _)
FreeAll(ps, l, bad) ==
    IF ps = <<>> THEN [live |-> l, bad |-> bad]
    ELSE IF Head(ps) = 0 THEN FreeAll(Tail(ps), l, bad)
    ELSE FreeAll(Tail(ps), l \ {Head(ps)}, bad \/ Head(ps) \notin l)

\* umr_packet_free() on the stream object the decode returned
umr_packet_free ==
    /\ UNCHANGED vmvars
    /\ pc = "ready"
    /\ pstream
    /\ ~freed
    /\ LET ps == (CASE fmt = "pm4" -> umr_free_pm4_stream(result)
                    [] fmt = "hsa" -> umr_free_hsa_stream(result)
                    [] fmt = "umsch" -> umr_free_umsch_stream(result)) \o <<1>>
           r == FreeAll(ps, live, badfree)
       IN  /\ live' = r.live
           /\ badfree' = r.bad
    /\ freed' = TRUE
    /\ UNCHANGED <<fmt, buf, tail, pc, frames, result, allocs, oob, errs, opts, gmem,
                   reads, regs, regids, pstream, copy, copyfreed, ui, cont, ncalls>>

\* ------------------------------------------------------------------------
\* Looking a shader up in a decoded stream
\* ------------------------------------------------------------------------
\* a < b as unsigned 64-bit numbers
Lt64(a, b) ==
    \E i \in 1..4 :
        /\ a[i] < b[i]
        /\ \A j \in (i + 1)..4 : a[j] = b[j]

\* the test both finders apply to a shader of the stream
ShaderMatches(pgm, vmid, addr) ==
    /\ (pgm.vmid = vmid \/ opts.uq_active)
    /\ ~Lt64(addr, pgm.addr)
    /\ Lt64(addr, Add64(pgm.addr, A64(pgm.size % 65536, pgm.size \div 65536, 0, 0)))

NoShader ==
    [id |-> 0, vmid |-> 0, addr |-> A64(0, 0, 0, 0), size |-> 0, type |-> "none",
     rid |-> 0, regs |-> <<>>]

\* the first shader of the list that matches, NoShader when none does
RECURSIVE FirstMatch(_, _, _)
FirstMatch(sh, vmid, addr) ==
    IF sh = <<>> THEN NoShader
    ELSE IF ShaderMatches(Head(sh), vmid, addr) THEN Head(sh)
    ELSE FirstMatch(Tail(sh), vmid, addr)

\* the shader object of the stream umr_find_shader_in_pm4_stream() settles
\* on: a packet's own shaders come before the shaders of its indirect buffer
RECURSIVE umr_find_shader_in_pm4_stream(_, _, _)
umr_find_shader_in_pm4_stream(st, vmid, addr) ==
    IF st.null \/ st.nodes = <<>> THEN NoShader
    ELSE LET n == Head(st.nodes)
             own == FirstMatch(n.shader, vmid, addr)
             sub == umr_find_shader_in_pm4_stream(n.ib, vmid, addr)
         IN  IF own.id # 0 THEN own
             ELSE IF sub.id # 0 THEN sub
             ELSE umr_find_shader_in_pm4_stream(Stream(Tail(st.nodes)), vmid, addr)

RECURSIVE umr_find_shader_in_hsa_stream(_, _, _)
umr_find_shader_in_hsa_stream(st, vmid, addr) ==
    IF st.null \/ st.nodes = <<>> THEN NoShader
    ELSE LET own == FirstMatch(Head(st.nodes).shader, vmid, addr)
         IN  IF own.id # 0 THEN own
             ELSE umr_find_shader_in_hsa_stream(Stream(Tail(st.nodes)), vmid, addr)

\* the finder hands out the stream's own shader object
ShaderAlias(p, id) ==
    [id |-> p.id, pgm |-> p]

\* *pp = *p: the object handed to the caller is allocation id, and every
\* field of it, the regs pointer included, is the field of the stream's object
ShaderCopy(p, id) ==
    [id |-> id, pgm |-> p]

NoCopy ==
    [id |-> 0, pgm |-> NoShader]

\* the (vmid, address) pairs the caller looks up
Queries ==
    {[vmid |-> 0, addr |-> A64(4096, 0, 0, 0)],
     [vmid |-> 0, addr |-> A64(8448, 0, 0, 0)],
     [vmid |-> 1, addr |-> A64(4096, 0, 0, 0)],
     [vmid |-> 0, addr |-> A64(4097, 0, 0, 0)]}

\* umr_packet_find_shader() on the decoded stream
umr_packet_find_shader ==
    /\ UNCHANGED vmvars
    /\ pc = "ready"
    /\ pstream
    /\ ~freed
    /\ fmt \in {"pm4", "hsa"}
    /\ copy = NoCopy
    /\ ~copyfreed
    /\ \E q \in Queries :
          LET p == IF fmt = "pm4"
                   THEN umr_find_shader_in_pm4_stream(result, q.vmid, q.addr)
                   ELSE umr_find_shader_in_hsa_stream(result, q.vmid, q.addr)
          IN  IF p.id # 0
              THEN /\ copy' = ShaderCopy(p, Len(allocs) + 1)
                   /\ allocs' = Append(allocs, "copy")
                   /\ live' = live \cup {Len(allocs) + 1}
              ELSE UNCHANGED <<copy, allocs, live>>
    /\ UNCHANGED <<fmt, buf, tail, pc, frames, result, badfree, oob, errs, opts, gmem,
                   reads, regs, regids, pstream, freed, copyfreed, ui, cont, ncalls>>

\* the caller releases the shader object it was handed with free()
free_shader_copy ==
    /\ UNCHANGED vmvars
    /\ copy # NoCopy
    /\ ~copyfreed
    /\ LET r == FreeAll(<<copy.id>>, live, badfree)
       IN  /\ live' = r.live
           /\ badfree' = r.bad
    /\ copyfreed' = TRUE
    /\ UNCHANGED <<fmt, buf, tail, pc, frames, result, allocs, oob, errs, opts, gmem,
                   reads, regs, regids, pstream, freed, copy, ui, cont, ncalls>>

\* ------------------------------------------------------------------------
\* Presenting a decoded stream through the UI callbacks
\* ------------------------------------------------------------------------
Repeat(x, n) ==
    [i \in 1..n |-> x]

\* number of add_field calls of an HSA packet type
HsaFieldCount(type) ==
    CASE type = 2 -> 12
      [] type = 4 -> 9
      [] type \in {3, 5} -> 9
      [] OTHER -> 0

\* the callbacks of one HSA packet
HsaNodeTrace(n) ==
    LET heur == /\ opts.aql_heuristic
                /\ opts.uq_active
                /\ <<n.words[18], n.words[19]>> = opts.hqd_base_hi
                /\ <<n.words[22], n.words[23]>> = opts.hqd_base_hi
    IN  <<"start_opcode">>
           \o Repeat("add_field", IF n.type = 1
                                  THEN (IF heur THEN HsaFieldCount(2) ELSE 0)
                                  ELSE HsaFieldCount(n.type))
           \o Repeat("add_shader", Len(n.shader))
           \o (IF n.shader # <<>> /\ n.kernarg # 0 THEN <<"add_data">> ELSE <<>>)

\* the while loop of umr_hsa_decode_stream_opcodes from node i on with lim
\* opcodes left: the callbacks made and the node it stops at
RECURSIVE HsaLoop(_, _, _)
HsaLoop(nodes, i, lim) ==
    IF i > Len(nodes) \/ lim = 0 \/ nodes[i].nwords = 0
    THEN [tr |-> <<>>, next |-> i]
    ELSE LET r == HsaLoop(nodes, i + 1, lim - 1)
         IN  [tr |-> HsaNodeTrace(nodes[i]) \o r.tr, next |-> r.next]

umr_hsa_decode_stream_opcodes(nodes, i, lim) ==
    LET r == HsaLoop(nodes, i, lim)
    IN  [tr |-> <<"start_ib">> \o r.tr \o <<"done">>, next |-> r.next]

\* number of add_field calls of a UMSCH scheduler opcode
UmschFieldCount(op) ==
    CASE op = 0 -> 41
      [] op = 1 -> 15
      [] op = 2 -> 29
      [] op \in {3, 5, 6, 8} -> 6
      [] op = 4 -> 3
      [] op \in {7, 12} -> 5
      [] op \in {9, 10, 11} -> 7
      [] OTHER -> 0

\* the callbacks of one UMSCH packet
UmschNodeTrace(n) ==
    IF n.type = 1 /\ n.opcode <= 12
    THEN <<"start_opcode">> \o Repeat("add_field", UmschFieldCount(n.opcode))
    ELSE IF n.type = 1 /\ n.nwords = 0 /\ n.header_dw = ZeroWord
    THEN <<"start_opcode">>
    ELSE IF opts.ui_unhandled THEN <<"unhandled">> ELSE <<>>

\* the while loop of umr_umsch_decode_stream_opcodes: it leaves at the first
\* packet that is not a scheduler packet
RECURSIVE UmschLoop(_, _, _)
UmschLoop(nodes, i, lim) ==
    IF i > Len(nodes) \/ lim = 0
    THEN [tr |-> <<>>, next |-> i]
    ELSE IF nodes[i].type # 1
    THEN [tr |-> UmschNodeTrace(nodes[i]), next |-> i]
    ELSE LET r == UmschLoop(nodes, i + 1, lim - 1)
         IN  [tr |-> UmschNodeTrace(nodes[i]) \o r.tr, next |-> r.next]

\* done() is left out when the loop stops before the end of the stream
umr_umsch_decode_stream_opcodes_nodone(nodes, i, lim) ==
    LET r == UmschLoop(nodes, i, lim)
    IN  [tr |-> <<"start_ib">> \o r.tr \o (IF r.next <= Len(nodes) THEN <<>> ELSE <<"done">>),
         next |-> r.next]

umr_umsch_decode_stream_opcodes(nodes, i, lim) ==
    LET r == UmschLoop(nodes, i, lim)
    IN  [tr |-> <<"start_ib">> \o r.tr \o <<"done">>, next |-> r.next]

\* umr_packet_disassemble_stream() with an opcode limit, from the start of
\* the stream or from where the last call stopped
umr_packet_disassemble_stream ==
    /\ UNCHANGED vmvars
    /\ pc = "ready"
    /\ pstream
    /\ ~freed
    /\ fmt \in {"hsa", "umsch"}
    /\ ncalls < MaxCalls
    /\ \E lim \in 0..(MaxPkts + 1), usecont \in BOOLEAN :
          LET i == IF usecont THEN cont ELSE 1
              r == IF fmt = "hsa"
                   THEN umr_hsa_decode_stream_opcodes(result.nodes, i, lim)
                   ELSE umr_umsch_decode_stream_opcodes(result.nodes, i, lim)
          IN  /\ ui' = r.tr
              /\ cont' = r.next
    /\ ncalls' = ncalls + 1
    /\ UNCHANGED <<fmt, buf, tail, pc, frames, result, allocs, live, badfree, oob, errs,
                   opts, gmem, reads, regs, regids, pstream, freed, copy, copyfreed>>

\* ------------------------------------------------------------------------
\* Inputs
\* ------------------------------------------------------------------------
\* UMSCH headers: invalid type (4 words), a scheduler packet whose length
\* comes from the header field (opcode 0x20, length 2), one of length 0, and
\* REMOVE_QUEUE (64 words)
UmschHeaders ==
    {W(0, 0), W(0, 8705), W(0, 513), W(0, 49)}

UmschPacket(h) ==
    <<h>> \o [i \in 1..(UmschNwords(h) - 1) |-> W(0, i)]

UmschBuffers ==
    UNION {Truncations(Flatten([i \in 1..Len(hs) |-> UmschPacket(hs[i])])) :
              hs \in SeqUpTo(UmschHeaders, MaxPkts)}

Tails ==
    SeqUpTo({W(0, 0), W(0, 8705)}, MaxTail)

FirstFrame(n) ==
    [pos |-> 0, nwords |-> n, nodes |-> <<>>, cur |-> 2]

\* asic->options and the callbacks of the UI object, as the decoders read them
DefaultOptions ==
    [no_follow_ib |-> FALSE, no_follow_chained_ib |-> FALSE, no_follow_shader |-> TRUE,
     shader_enable |-> {"compute", "vertex", "pixel", "es", "gs", "hs", "ls"},
     uq_active |-> FALSE, aql_heuristic |-> FALSE, hqd_base_hi |-> <<0, 0>>,
     ui_unhandled |-> TRUE]

Pm4Options ==
    {DefaultOptions, [DefaultOptions EXCEPT !.no_follow_ib = TRUE]}

HsaOptions ==
    {DefaultOptions, [DefaultOptions EXCEPT !.uq_active = TRUE, !.aql_heuristic = TRUE]}

UmschOptions ==
    {DefaultOptions, [DefaultOptions EXCEPT !.ui_unhandled = FALSE]}

\* PM4 packets
Pm4Nop ==
    <<W(32768, 0)>>

Pm4WrapNop ==
    <<W(49151, 0)>>

\* SET_SH_REG of COMPUTE_PGM_LO and COMPUTE_PGM_HI
Pm4SetShader(lo, hi) ==
    <<W(49154, 30208), W(0, 524), W(0, lo), W(0, hi)>>

Pm4Dispatch ==
    <<W(49155, 5376), W(0, 1), W(0, 1), W(0, 1), W(0, 1)>>

\* SET_SH_REG of SPI_SHADER_PGM_LO_PS and SPI_SHADER_PGM_HI_PS, then a
\* DRAW_INDEX_AUTO without a body
Pm4SetPsDraw(lo, hi) ==
    <<W(49154, 30208), W(0, 8), W(0, lo), W(0, hi), W(65535, 11520)>>

\* INDIRECT_BUFFER to the region at 0x1000 * page, ndw words long
Pm4Ib(page, ndw) ==
    <<W(49154, 16128), W(0, 4096 * page), W(0, 0), W(0, ndw)>>

\* type-0 write of one register
Pm4Reg(off, hi, lo) ==
    <<W(0, off), W(hi, lo)>>

\* the two address registers of a UVD indirect buffer at 0x1000
Pm4UvdAddr ==
    Pm4Reg(15977, 0, 4096) \o Pm4Reg(15976, 0, 0)

\* the building blocks of the PM4 buffers; the UVD size register is written
\* with 4 words and with 0x300000 words (12 MiB)
Pm4Catalogue ==
    {Pm4Nop, Pm4WrapNop, Pm4SetShader(16, 0), Pm4SetShader(0, 0), Pm4Dispatch,
     Pm4Ib(1, 1), Pm4Ib(1, 4), Pm4Ib(1, 5), Pm4UvdAddr, Pm4Reg(15778, 48, 0), Pm4Reg(15778, 0, 4)}

\* SET_SH_REG of COMPUTE_PGM_LO = 0x1000, SET_SH_REG of COMPUTE_PGM_HI = 2,
\* DISPATCH_DIRECT: three packets, one register each
Pm4Scenario ==
    LET set_sh_reg(off, val) == <<W(49153, 30208), W(0, off), W(0, val)>>
    IN  set_sh_reg(524, 4096) \o set_sh_reg(525, 2) \o Pm4Dispatch

Pm4Buffers ==
    UNION {Truncations(Flatten(ps)) : ps \in SeqUpTo(Pm4Catalogue, MaxPkts)}

\* what the region at 0x1000 holds (W(65535, 5376) is a DISPATCH_DIRECT
\* without a body)
Pm4Regions ==
    {Pm4Nop \o Pm4Nop \o Pm4Nop \o Pm4Nop, Pm4Dispatch, Pm4SetShader(16, 0), Pm4Ib(1, 4),
     Pm4SetShader(0, 2), Pm4SetShader(16, 2) \o <<W(65535, 5376)>>, Pm4SetPsDraw(16, 0)}

Pm4Mems ==
    {NoMem} \cup {[a \in {A64(4096, 0, 0, 0)} |-> r] : r \in Pm4Regions}

\* HSA packets: 16 words; the kernel object pointer is in words 8 and 9,
\* the kernarg pointer in words 10 and 11
HsaPacket(type) ==
    [i \in 1..16 |-> CASE i = 1 -> W(0, type)
                       [] i = 9 -> W(0, 8192)
                       [] i = 11 -> W(0, 12288)
                       [] OTHER -> W(0, 0)]

HsaBuffers ==
    UNION {Truncations(Flatten([i \in 1..Len(ts) |-> HsaPacket(ts[i])])) :
              ts \in SeqUpTo({1, 2, 3}, MaxPkts)}

\* a kernel object: kernarg size in word 2, entry offset in words 4 and 5,
\* the resource words in 11, 12, 13
KernelObject(ksize) ==
    [i \in 1..16 |-> CASE i = 3 -> W(0, ksize)
                       [] i = 5 -> W(0, 256)
                       [] i = 12 -> W(0, 3)
                       [] i = 13 -> W(0, 1)
                       [] i = 14 -> W(0, 2)
                       [] OTHER -> W(0, 0)]

HsaMems ==
    {NoMem,
     [a \in {A64(8192, 0, 0, 0)} |-> KernelObject(8)],
     [a \in {A64(8192, 0, 0, 0), A64(12288, 0, 0, 0)} |->
         IF a = A64(8192, 0, 0, 0) THEN KernelObject(8) ELSE <<W(0, 7), W(0, 9)>>]}

\* no page walk is under way
VmIdle ==
    /\ vmctx = [maj |-> 0]
    /\ vmmem = [tbl |-> <<>>, data |-> {}]
    /\ vmreq = [address |-> 0, size |-> 0, dst |-> FALSE, write_en |-> FALSE]
    /\ vmpc = "idle"
    /\ walk = [address |-> 0]
    /\ vmlog = <<>>
    /\ vmpages = <<>>
    /\ vmret = 0

\* no capture is being post-processed
JobsIdle ==
    /\ job_count = 0
    /\ processed = <<>>
    /\ pp_thread = <<>>
    /\ pppc = "idle"

\* no ring is being decoded
RingIdle ==
    /\ ring = [ringname |-> "none"]
    /\ sqcmds = <<>>
    /\ ringdata = <<>>
    /\ stray = {}
    /\ ringps = [null |-> TRUE]

\* no user queue is bound
UqIdle ==
    /\ user_queue = [qidx |-> 0]
    /\ uqpc = "idle"
    /\ retq = [qidx |-> 0]
    /\ nparse = 0
    /\ RingIdle

InitPkt ==
    /\ \/ /\ fmt = "umsch"
          /\ buf \in UmschBuffers
          /\ tail \in Tails
          /\ gmem = NoMem
          /\ opts \in UmschOptions
          /\ frames = <<FirstFrame(Len(buf))>>
       \/ /\ fmt = "hsa"
          /\ buf \in HsaBuffers
          /\ tail = <<>>
          /\ gmem \in HsaMems
          /\ opts \in HsaOptions
          /\ frames = <<FirstFrame(2 * Len(buf))>>
       \/ /\ fmt = "pm4"
          /\ \/ /\ buf \in Pm4Buffers
                /\ gmem \in Pm4Mems
                /\ opts \in Pm4Options
             \/ /\ buf = Pm4Scenario
                /\ gmem = NoMem
                /\ opts \in {DefaultOptions, [DefaultOptions EXCEPT !.no_follow_shader = FALSE]}
          /\ tail = <<>>
          /\ frames = <<Pm4Frame(buf, Len(buf), 0, A64(0, 0, 0, 0), 2, 0)>>
    /\ pc = "decode"
    /\ result = NullStream
    /\ pstream = FALSE
    /\ allocs = <<"str", "node">>
    /\ live = {1, 2}
    /\ badfree = FALSE
    /\ oob = FALSE
    /\ errs = 0
    /\ reads = <<>>
    /\ regs = <<>>
    /\ regids = <<>>
    /\ freed = FALSE
    /\ copy = NoCopy
    /\ copyfreed = FALSE
    /\ ui = <<>>
    /\ cont = 1
    /\ ncalls = 0
    /\ VmIdle
    /\ UqIdle
    /\ JobsIdle

NextPkt ==
    \/ umr_umsch_decode_stream
    \/ umr_hsa_decode_stream
    \/ pm4_packet
    \/ pm4_return
    \/ umr_packet_free
    \/ umr_packet_find_shader
    \/ free_shader_copy
    \/ umr_packet_disassemble_stream

SpecPkt ==
    InitPkt /\ [][NextPkt]_vars

\* ------------------------------------------------------------------------
\* The packets of a buffer, as the headers declare them
\* ------------------------------------------------------------------------
\* declared length of the packet whose header is hdr, header included
DeclaredLen(hdr) ==
    CASE fmt = "pm4" -> 1 + Pm4NWords(hdr)
      [] fmt = "hsa" -> 16
      [] fmt = "umsch" -> UmschNwords(hdr)

\* start offsets of the packets of b that are complete, from offset pos on
RECURSIVE CompleteFrom(_, _)
CompleteFrom(b, pos) ==
    IF pos >= Len(b) THEN <<>>
    ELSE LET n == DeclaredLen(b[pos + 1])
         IN  IF n <= 0 \/ pos + n > Len(b) THEN <<>>
             ELSE <<pos>> \o CompleteFrom(b, pos + n)

CompletePackets ==
    CompleteFrom(buf, 0)

\* offset of the first word after the complete packets
CompleteEnd ==
    IF CompletePackets = <<>> THEN 0
    ELSE LET p == CompletePackets[Len(CompletePackets)]
         IN  p + DeclaredLen(buf[p + 1])

\* the last packet declares more words than the buffer has left
LastPacketTruncated ==
    /\ CompleteEnd < Len(buf)
    /\ DeclaredLen(buf[CompleteEnd + 1]) > Len(buf) - CompleteEnd

\* the header a node was decoded from, as a word
NodeHeader(node) ==
    CASE fmt = "pm4" -> node.header
      [] fmt = "hsa" -> W(0, node.header)
      [] fmt = "umsch" -> node.header_dw

\* the nodes of the returned stream are the complete packets, in order
NodesAreCompletePackets ==
    /\ Len(result.nodes) = Len(CompletePackets)
    /\ \A i \in 1..Len(CompletePackets) :
           LET h == buf[CompletePackets[i] + 1]
           IN  NodeHeader(result.nodes[i]) = (IF fmt = "hsa" THEN W(0, h.lo) ELSE h)

\* ------------------------------------------------------------------------
\* Properties
\* ------------------------------------------------------------------------
\* C1: for each decoder and every buffer whose last packet declares more
\* words than remain, decoding returns, without reporting an error, a
\* stream whose nodes are exactly the complete packets (an empty stream
\* when the first packet is the truncated one).
C1_TruncatedPacketDropped ==
    (pc # "decode" /\ LastPacketTruncated) =>
        /\ pc = "ready"
        /\ pstream
        /\ ~oob
        /\ NodesAreCompletePackets

\* the allocations that make up the decoded stream: packet nodes, copied
\* words, shader objects with their register-pair copies, kernarg buffers
StreamKinds ==
    {"node", "words", "shader", "regs", "kernarg"}

\* C5: decoding a PM4 buffer never aborts the process, whatever the buffer
\* and whatever the GPU memory behind the indirect buffers it follows.
C5_Pm4DecodeNeverAborts ==
    fmt = "pm4" => pc # "crash"

\* the allocations that belong to the decoded stream
StreamMemory ==
    LET ps == CASE fmt = "pm4" -> umr_free_pm4_stream(result)
                [] fmt = "hsa" -> umr_free_hsa_stream(result)
                                     \o [i \in 1..Len(result.nodes) |-> result.nodes[i].wid]
                [] fmt = "umsch" -> umr_free_umsch_stream(result)
    IN  {ps[i] : i \in 1..Len(ps)} \ {0}

\* C6 (as claimed): the shader object a lookup returns is an independently
\* owned copy, so after the source stream is freed its register-pair list
\* is still valid memory.
C6_CopyOutlivesStream ==
    (copy # NoCopy /\ freed) => (copy.pgm.rid = 0 \/ copy.pgm.rid \in live)

\* C6 (amended): the shader object a lookup returns is a separately
\* allocated shallow copy. Its scalar fields are those of the stream's
\* shader and releasing it frees no stream memory, but its register-pair
\* list is the stream's own array: valid exactly until umr_packet_free.
C6_ShallowCopy ==
    copy # NoCopy =>
        /\ allocs[copy.id] = "copy"
        /\ copy.id \notin StreamMemory
        /\ copy.pgm.id \in StreamMemory
        /\ copy.pgm.rid \in StreamMemory
        /\ copy.pgm.rid \in live <=> ~freed
        /\ copy.id \in live <=> ~copyfreed
        /\ (copyfreed /\ ~freed) => StreamMemory \subseteq live

\* a copy was handed out, the stream was freed, then the copy was freed
C6_CopyUsedAfterFree ==
    /\ copy # NoCopy
    /\ freed
    /\ copyfreed
    /\ Len(copy.pgm.regs) > 0

\* C7: after umr_packet_free every allocation made for the stream while
\* decoding has been released, and none was released twice.
C7_FreeReleasesEverything ==
    freed =>
        /\ ~badfree
        /\ \A i \in live : allocs[i] \notin StreamKinds

\* C8: no umr_read_vram() is issued for an indirect buffer whose declared
\* size exceeds 8 MiB.
C8_NoOversizedIbRead ==
    fmt = "pm4" => \A i \in 1..Len(reads) : reads[i].ndw <= MaxIbDwords

\* C9: every call of umr_hsa_decode_stream_opcodes and of
\* umr_umsch_decode_stream_opcodes makes the start_ib callback exactly
\* once, before every other callback, and the done callback exactly once,
\* as the last one, whatever the stream and the opcode limit, also when
\* the loop stops before the end of the stream.
C9_StartIbFirstDoneLast ==
    ncalls > 0 =>
        /\ Len(ui) >= 2
        /\ ui[1] = "start_ib"
        /\ ui[Len(ui)] = "done"
        /\ \A i \in 2..Len(ui) : ui[i] # "start_ib"
        /\ \A i \in 1..(Len(ui) - 1) : ui[i] # "done"

\* a call that presented a packet and stopped before the end of the stream
C9_StoppedEarly ==
    /\ ncalls > 0
    /\ Len(ui) > 2
    /\ cont <= Len(result.nodes)

\* ------------------------------------------------------------------------
\* GPU virtual memory: table entries and their decoders
\* ------------------------------------------------------------------------
VM_PAGE_SIZE_BITS ==
    12

VM_PAGE_SIZE ==
    4096

VM_PDB_ENTRY_BITS ==
    9

VM_PDB_ENTRY_MASK ==
    511

VM_PTB_ENTRY_SIZE ==
    8

VM_2MB_BLOCK_BITS ==
    21

VM_PAGE_OFFSET_MASK ==
    4095

\* A 64-bit table entry, kept as three bit ranges: hi is bits 63:48, page is
\* bits 47:12 and lo is bits 11:0.  Every address of the model is below 2^31.
Entry(hi, page, lo) ==
    [hi |-> hi, page |-> page, lo |-> lo]

\* bit k of x
Bit(x, k) ==
    ((x \div (2 ^ k)) % 2) = 1

\* entry & 0xFFFFFFFFF000
Base64_4k(e) ==
    e.page * 4096

\* entry & 0xFFFFFFFFFFC0
Base64(e) ==
    e.page * 4096 + (e.lo \div 64) * 64

umr_decode_pde_entry(maj, e) ==
    CASE maj \in {9, 10} ->
             [frag_size |-> (e.hi \div 2048) % 32, pte_base_addr |-> Base64(e),
              valid |-> Bit(e.lo, 0), system |-> Bit(e.lo, 1),
              pte |-> Bit(e.hi, 6), further |-> Bit(e.hi, 8), tfs_addr |-> FALSE]
      [] maj = 11 ->
             [frag_size |-> (e.hi \div 2048) % 32, pte_base_addr |-> Base64(e),
              valid |-> Bit(e.lo, 0), system |-> Bit(e.lo, 1),
              pte |-> Bit(e.hi, 6), further |-> Bit(e.hi, 8), tfs_addr |-> Bit(e.hi, 9)]
      [] maj = 12 ->
             [frag_size |-> (e.hi \div 1024) % 32, pte_base_addr |-> Base64(e),
              valid |-> Bit(e.lo, 0), system |-> Bit(e.lo, 1),
              pte |-> Bit(e.hi, 15), further |-> FALSE, tfs_addr |-> Bit(e.hi, 8)]
      [] OTHER ->
             [frag_size |-> 0, pte_base_addr |-> 0, valid |-> FALSE, system |-> FALSE,
              pte |-> FALSE, further |-> FALSE, tfs_addr |-> FALSE]

umr_decode_pte_entry(maj, e) ==
    LET known == maj \in {9, 10, 11, 12}
        further == maj \in {9, 10, 11} /\ Bit(e.hi, 8)
        pte == maj = 12 /\ Bit(e.hi, 15)
        is_pde == IF maj = 12 THEN ~pte ELSE further
    IN  [valid |-> known /\ Bit(e.lo, 0),
         system |-> known /\ Bit(e.lo, 1),
         fragment |-> IF known THEN (e.lo \div 128) % 32 ELSE 0,
         prt |-> IF maj = 12 THEN Bit(e.hi, 8) ELSE maj \in {9, 10, 11} /\ Bit(e.hi, 3),
         further |-> further,
         pte |-> pte,
         page_base_addr |-> IF is_pde THEN Base64(e) ELSE e.page * 4096]

\* number of bits of x
RECURSIVE BitLen(_)
BitLen(x) ==
    IF x = 0 THEN 0 ELSE 1 + BitLen(x \div 2)

\* (the 64-bit overflow branch needs a span no context of the model has)
log2_vm_size(page_table_start_addr, page_table_end_addr) ==
    LET size_of_vm_bytes == (page_table_end_addr - page_table_start_addr) + VM_PAGE_SIZE
    IN  IF size_of_vm_bytes <= 1 THEN 0 ELSE BitLen(size_of_vm_bytes - 1)

Min(a, b) ==
    IF a < b THEN a ELSE b

\* ------------------------------------------------------------------------
\* GPU virtual memory: the backends
\* ------------------------------------------------------------------------
\* fb_top < fb_bottom selects the zero-frame-buffer mode
Zfb ==
    vmctx.fb_top < vmctx.fb_bottom

\* the AGP aperture registers are read in that mode only
Agp ==
    IF Zfb
    THEN [bot |-> vmctx.agp_bot, top |-> vmctx.agp_top, base |-> vmctx.agp_base]
    ELSE [bot |-> 0, top |-> 0, base |-> 0]

\* where access_translated_address() sends an access: the backend and the
\* address it is given
access_translated_address(addr, sys) ==
    IF ~sys
    THEN IF Zfb /\ addr >= Agp.bot /\ addr < Agp.top
         THEN [bk |-> "sram", addr |-> (addr - Agp.bot) + Agp.base]
         ELSE [bk |-> "vram", addr |-> addr]
    ELSE [bk |-> "sram", addr |-> addr]

\* the backend call succeeds: umr_access_vram() wants 4-byte alignment, and
\* the read() or write() behind either backend must transfer len bytes
BackendOk(t, len) ==
    LET frames4k == IF len = 0 THEN {}
                    ELSE (t.addr \div 4096)..((t.addr + len - 1) \div 4096)
    IN  /\ t.bk = "vram" => (t.addr % 4 = 0 /\ len % 4 = 0)
        /\ \A f \in frames4k : <<t.bk, f>> \in vmmem.data

\* a table entry can be fetched from where the access is sent
FetchOk(t) ==
    <<t.bk, t.addr>> \in DOMAIN vmmem.tbl

\* umr_access_sram(): the amdgpu_iomem file first; when that fails and a
\* user queue is active, the memory of the client process at
\* user_queue.state.va, the virtual address the call was entered with
umr_access_sram(t, iomem_ok) ==
    IF t.bk = "sram" /\ ~iomem_ok /\ vmctx.uq_active
    THEN [bk |-> "hmm", addr |-> vmreq.address]
    ELSE t

NoEntry ==
    Entry(0, 0, 0)

\* a write of len bytes taken from offset src of the caller's buffer: the
\* bytes are in memory from then on
MemWrite(t, len, src) ==
    [vmmem EXCEPT !.written = Append(@, [bk |-> t.bk, addr |-> t.addr, len |-> len, src |-> src])]

\* the backend returns what was in memory before any write
MemRead_stale(t, len) ==
    -1

\* a read of len bytes: the offset in the writer's buffer of the bytes it
\* returns, when they are those of the last write that touched the range;
\* -1 for bytes that were in memory before, or that come from several writes
MemRead(t, len) ==
    LET over == {i \in DOMAIN vmmem.written :
                    /\ vmmem.written[i].bk = t.bk
                    /\ vmmem.written[i].addr < t.addr + len
                    /\ t.addr < vmmem.written[i].addr + vmmem.written[i].len}
        last == vmmem.written[CHOOSE i \in over : \A j \in over : j <= i]
    IN  IF over = {} THEN -1
        ELSE IF last.addr <= t.addr /\ t.addr + len <= last.addr + last.len
        THEN last.src + (t.addr - last.addr)
        ELSE -1

\* one backend call: what it was for ("PDE", "PTE", "user page", "linear"),
\* where it went, the entry it read if it fetched one, the offset in the
\* caller's buffer a data access is for, and what a data read returned
Access(op, t, len, ok, e) ==
    [op |-> op, bk |-> t.bk, addr |-> t.addr, len |-> len, ok |-> ok, entry |-> e,
     pdst |-> walk.pdst, got |-> MemRead(t, len), to |-> t]

Fetched(t) ==
    IF FetchOk(t) THEN vmmem.tbl[<<t.bk, t.addr>>] ELSE NoEntry

\* newer kernels have no iova file: the bus address is the physical address
gpu_bus_to_cpu_address(dma_addr) ==
    dma_addr

\* ------------------------------------------------------------------------
\* GPU virtual memory: the GFX9-12 page walk (umr_access_vram_ai)
\* ------------------------------------------------------------------------
MaxHops == 3

NoPte ==
    umr_decode_pte_entry(0, NoEntry)

NoWalk ==
    [address |-> 0, size |-> 0, pdst |-> 0, current_depth |-> 0,
     block_size |-> 0, total_vm_bits |-> 0, top_pdb_bits |-> 0, base |-> NoEntry,
     pde |-> umr_decode_pde_entry(0, NoEntry), pde_address |-> 0, pde_was_pte |-> FALSE, further |-> FALSE,
     pte_entry |-> NoEntry, pte_idx |-> 0, pte |-> NoPte,
     pde0_block_fragment_size |-> 0, pte_block_fragment_size |-> 0,
     ptb_mask |-> 0, pte_page_mask |-> 0, hops |-> 0]

\* the entry point: alignment check, then the engine of the GFX generation
umr_access_vram ==
    /\ vmpc = "call"
    /\ IF vmreq.address % 4 # 0 \/ vmreq.size % 4 # 0
       THEN /\ vmpc' = "done"
            /\ vmret' = -1
       ELSE /\ vmpc' = (IF vmctx.maj <= 8 THEN "vi" ELSE "ai")
            /\ UNCHANGED vmret
    /\ UNCHANGED <<vmctx, vmmem, vmreq, walk, vmlog, vmpages>>
    /\ UNCHANGED pktvars

\* the VMID-0 system-access-mode rules: TRUE when the address is not
\* translated but handed to the linear VRAM backend
SamPassthrough(address) ==
    LET inside == address >= vmctx.system_aperture_low /\ address < vmctx.system_aperture_high
    IN  /\ ~vmctx.uq_active
        /\ vmctx.vmid = 0
        /\ CASE vmctx.sam = 0 -> TRUE
             [] vmctx.sam = 2 -> ~inside
             [] vmctx.sam = 3 -> inside
             [] OTHER -> FALSE

\* the linear address a passed-through access uses
SamAddress(address) ==
    IF vmctx.sam # 0 /\ address >= vmctx.fb_bottom /\ address < vmctx.fb_top
    THEN address - vmctx.fb_bottom
    ELSE address

\* the range check passes whatever the address
InRange_any(address) ==
    TRUE

\* the address is within the span of the root page table
InRange(address) ==
    ~(address < vmctx.start \/ address > vmctx.end + VM_PAGE_OFFSET_MASK)

\* the prologue: registers, system access mode, range check
umr_access_vram_ai ==
    /\ vmpc = "ai"
    /\ LET address == vmreq.address
           t == [bk |-> "vram", addr |-> SamAddress(address)]
           ok == BackendOk(t, vmreq.size)
           total == log2_vm_size(vmctx.start, vmctx.end)
           \* PAGE_TABLE_BASE_ADDR, moved by the frame-buffer offset when in VRAM
           root == IF umr_decode_pde_entry(vmctx.maj, vmctx.base).system
                   THEN vmctx.base
                   ELSE [vmctx.base EXCEPT !.page = @ - (vmctx.vm_fb_offset \div 4096)]
       IN  IF SamPassthrough(address)
           THEN /\ vmpc' = "done"
                /\ IF vmreq.dst
                   THEN /\ vmlog' = Append(vmlog, Access("linear", t, vmreq.size, ok, NoEntry))
                        /\ vmret' = (IF ok THEN 0 ELSE -1)
                        /\ vmmem' = IF ok /\ vmreq.write_en
                                    THEN MemWrite(t, vmreq.size, 0)
                                    ELSE vmmem
                   ELSE /\ vmret' = 0
                        /\ UNCHANGED <<vmlog, vmmem>>
                /\ UNCHANGED walk
           ELSE IF ~InRange(address)
           THEN /\ vmpc' = "done"
                /\ vmret' = -1
                /\ UNCHANGED <<vmlog, walk, vmmem>>
           ELSE /\ vmpc' = "page"
                /\ walk' = [NoWalk EXCEPT
                               !.address = address - vmctx.start,
                               !.size = vmreq.size,
                               !.base = root,
                               !.total_vm_bits = total,
                               !.block_size = IF vmctx.depth = 0
                                              THEN total - VM_2MB_BLOCK_BITS
                                              ELSE vmctx.block_size]
                /\ UNCHANGED <<vmlog, vmret, vmmem>>
    /\ UNCHANGED <<vmctx, vmreq, vmpages>>
    /\ UNCHANGED pktvars

\* the head of the do-loop: start the walk of the next page at the root
ai_page ==
    /\ vmpc = "page"
    /\ LET pde == umr_decode_pde_entry(vmctx.maj, walk.base)
           levels == IF vmctx.depth # 0 THEN vmctx.depth ELSE 1
       IN  /\ walk' = [walk EXCEPT
                          !.pde = pde,
                          !.pde_address = pde.pte_base_addr,
                          !.pte_entry = NoEntry,
                          !.pte_idx = 0,
                          !.pte = NoPte,
                          !.pte_block_fragment_size = 0,
                          !.ptb_mask = (2 ^ VM_PDB_ENTRY_BITS) - 1,
                          !.pte_page_mask = (2 ^ VM_PAGE_SIZE_BITS) - 1,
                          !.further = FALSE,
                          !.pde_was_pte = FALSE,
                          !.hops = 0,
                          !.top_pdb_bits = walk.total_vm_bits
                                           - VM_PDB_ENTRY_BITS * (levels - 1)
                                           - (walk.block_size + VM_2MB_BLOCK_BITS),
                          !.current_depth = vmctx.depth]
           /\ vmpc' = (IF vmctx.depth # 0 THEN "pde" ELSE "ptb")
    /\ UNCHANGED <<vmctx, vmmem, vmreq, vmlog, vmpages, vmret>>
    /\ UNCHANGED pktvars

prepare_pde_to_pte(w, current_depth) ==
    LET pde0 == w.pde.frag_size
        start_bit == IF current_depth # 0
                     THEN Min(VM_PDB_ENTRY_BITS * (current_depth - 1) + w.block_size
                              + VM_2MB_BLOCK_BITS, w.total_vm_bits)
                     ELSE pde0 + VM_PAGE_SIZE_BITS
        end_bit == IF current_depth # 0
                   THEN Min(VM_PDB_ENTRY_BITS * current_depth + w.block_size
                            + VM_2MB_BLOCK_BITS, w.total_vm_bits)
                   ELSE w.block_size + VM_2MB_BLOCK_BITS
    IN  [w EXCEPT !.pde0_block_fragment_size = pde0,
                  !.ptb_mask = (2 ^ (end_bit - start_bit)) - 1,
                  !.pte_page_mask = (2 ^ start_bit) - 1]

\* a fetched directory entry whose base is in VRAM is moved by the
\* frame-buffer offset
FbAdjust(pde) ==
    IF pde.system THEN pde ELSE [pde EXCEPT !.pte_base_addr = @ - vmctx.vm_fb_offset]

\* one round of while (current_depth): fetch and decode one PDE
ai_pde ==
    /\ vmpc = "pde"
    /\ LET amount_to_shift == (walk.total_vm_bits - walk.top_pdb_bits)
                              - (vmctx.depth - walk.current_depth) * VM_PDB_ENTRY_BITS
           idx0 == walk.address \div (2 ^ amount_to_shift)
           pde_idx == IF walk.current_depth # vmctx.depth
                      THEN idx0 % (VM_PDB_ENTRY_MASK + 1) ELSE idx0
           t0 == access_translated_address(walk.pde_address + pde_idx * VM_PTB_ENTRY_SIZE,
                                           walk.pde.system)
           t == umr_access_sram(t0, FetchOk(t0))
           e == Fetched(t)
           pde == umr_decode_pde_entry(vmctx.maj, e)
       IN  /\ vmlog' = Append(vmlog, [Access("PDE", t, VM_PTB_ENTRY_SIZE, FetchOk(t), e) EXCEPT !.to = t0])
           /\ IF ~FetchOk(t)
              THEN /\ vmpc' = "done"
                   /\ vmret' = -1
                   /\ UNCHANGED walk
              ELSE IF pde.pte
              THEN /\ vmpc' = "pde_is_pte"
                   /\ walk' = prepare_pde_to_pte(
                                  [walk EXCEPT !.pde = pde, !.pte_entry = e,
                                               !.pte_idx = pde_idx, !.pde_was_pte = TRUE],
                                  walk.current_depth)
                   /\ UNCHANGED vmret
              ELSE IF ~pde.valid
              THEN /\ vmpc' = "done"
                   /\ vmret' = -1
                   /\ walk' = [walk EXCEPT !.pde = FbAdjust(pde)]
              ELSE /\ vmpc' = (IF walk.current_depth - 1 # 0 THEN "pde" ELSE "ptb")
                   /\ walk' = [walk EXCEPT !.pde = FbAdjust(pde),
                                           !.pde_address = FbAdjust(pde).pte_base_addr,
                                           !.current_depth = @ - 1]
                   /\ UNCHANGED vmret
    /\ UNCHANGED <<vmctx, vmmem, vmreq, vmpages>>
    /\ UNCHANGED pktvars

\* label pte_further, reached from the end of the directory walk (after
\* prepare_pde_to_pte and the PTB index) or from a PTE that acts as a PDE:
\* fetch the PTE
pte_further ==
    /\ vmpc \in {"ptb", "pte_further"}
    /\ LET w0 == prepare_pde_to_pte(walk, walk.current_depth)
           w == IF vmpc = "ptb"
                THEN [w0 EXCEPT !.pte_idx =
                         (walk.address \div (2 ^ (VM_PAGE_SIZE_BITS + w0.pde0_block_fragment_size)))
                         % (w0.ptb_mask + 1)]
                ELSE walk
           t0 == access_translated_address(w.pde.pte_base_addr + w.pte_idx * VM_PTB_ENTRY_SIZE,
                                           w.pde.system)
           t == umr_access_sram(t0, FetchOk(t0))
       IN  /\ vmlog' = Append(vmlog, [Access("PTE", t, VM_PTB_ENTRY_SIZE, FetchOk(t), Fetched(t)) EXCEPT !.to = t0])
           /\ IF ~FetchOk(t)
              THEN /\ vmpc' = "done"
                   /\ vmret' = -1
                   /\ walk' = w
              ELSE /\ vmpc' = "pde_is_pte"
                   /\ walk' = [w EXCEPT !.pte_entry = Fetched(t)]
                   /\ UNCHANGED vmret
    /\ UNCHANGED <<vmctx, vmmem, vmreq, vmpages>>
    /\ UNCHANGED pktvars

\* the leaf check never sends the walk to invalid_page
LeafInvalid_never(pdst, pte) ==
    FALSE

\* the check that sends the walk to invalid_page
LeafInvalid(pdst, pte) ==
    pdst /\ ~pte.prt /\ ~pte.valid

\* label pde_is_pte: decode the leaf, then either follow it as a table
\* pointer (goto pte_further) or settle the page it maps
pde_is_pte ==
    /\ vmpc = "pde_is_pte"
    /\ LET pte == umr_decode_pte_entry(vmctx.maj, walk.pte_entry)
           as_pde == umr_decode_pde_entry(vmctx.maj, walk.pte_entry)
           tfs == vmctx.maj >= 11 /\ walk.pde.tfs_addr /\ walk.current_depth = 0
                  /\ ~walk.pde_was_pte
           pde == IF tfs
                  THEN [as_pde EXCEPT !.pte_base_addr = @ + walk.pde.pte_base_addr]
                  ELSE FbAdjust(as_pde)
           bfs == pde.frag_size
           num_entry_bits == walk.pde0_block_fragment_size - bfs
           leaf == IF pte.system THEN pte
                   ELSE [pte EXCEPT !.page_base_addr = @ - vmctx.vm_fb_offset]
           \* the leaf is to be read as a pointer to one more table
           pte_is_pde == IF vmctx.maj >= 12 /\ ~pte.pte /\ pte.valid
                         THEN TRUE
                         ELSE pte.further /\ pte.valid
       IN  IF pte_is_pde
           THEN /\ walk.hops < MaxHops
                /\ vmpc' = "pte_further"
                /\ walk' = [walk EXCEPT
                               !.pte = pte,
                               !.pde = pde,
                               !.pte_block_fragment_size = bfs,
                               !.pte_idx = (walk.address \div (2 ^ (VM_PAGE_SIZE_BITS + bfs)))
                                           % (2 ^ num_entry_bits),
                               !.pte_page_mask = (2 ^ (VM_PAGE_SIZE_BITS + bfs)) - 1,
                               !.further = TRUE,
                               !.hops = @ + 1]
                /\ UNCHANGED vmret
           ELSE IF LeafInvalid(vmreq.dst, leaf)
           THEN /\ vmpc' = "done"
                /\ vmret' = -1
                /\ walk' = [walk EXCEPT !.pte = leaf]
           ELSE /\ vmpc' = "user_page"
                /\ walk' = [walk EXCEPT !.pte = leaf]
                /\ UNCHANGED vmret
    /\ UNCHANGED <<vmctx, vmmem, vmreq, vmlog, vmpages>>
    /\ UNCHANGED pktvars

\* the access is not limited to the page
ChunkSize_whole(start_addr, size, page_end_addr) ==
    size

\* the access is limited to what is left of the page
ChunkSize(start_addr, size, page_end_addr) ==
    IF start_addr + size > page_end_addr THEN page_end_addr - start_addr ELSE size

\* the offset within the mapping is always that within a 4 KiB page
offset_mask_4k(w) ==
    VM_PAGE_OFFSET_MASK

\* the bits of the address that are the offset within the mapping of the
\* terminal entry
offset_mask(w) ==
    IF w.pde_was_pte /\ w.current_depth # 0
    THEN (2 ^ ((w.current_depth - 1) * VM_PDB_ENTRY_BITS
               + (VM_2MB_BLOCK_BITS + w.block_size))) - 1
    ELSE IF ~w.further
    THEN (2 ^ ((w.current_depth * VM_PDB_ENTRY_BITS)
               + (VM_PAGE_SIZE_BITS + w.pde0_block_fragment_size))) - 1
    ELSE (2 ^ (VM_PAGE_SIZE_BITS + w.pte_block_fragment_size)) - 1

\* the rest of the do-loop body: the physical address, the chunk, the access
\* to the user page, and the loop condition
ai_user_page ==
    /\ vmpc = "user_page"
    /\ LET w == walk
           page_start_addr == gpu_bus_to_cpu_address(walk.pte.page_base_addr)
           start_addr == page_start_addr + (walk.address % (offset_mask(w) + 1))
           page_end_addr == page_start_addr + walk.pte_page_mask + 1
           chunk_size == ChunkSize(start_addr, walk.size, page_end_addr)
           t0 == access_translated_address(start_addr, walk.pte.system)
           t == umr_access_sram(t0, BackendOk(t0, chunk_size))
           ok == BackendOk(t, chunk_size)
           accessed == walk.pte.valid /\ vmreq.dst
       IN  /\ vmlog' = IF accessed
                       THEN Append(vmlog, [Access("user page", t, chunk_size, ok, NoEntry) EXCEPT !.to = t0])
                       ELSE vmlog
           /\ vmmem' = IF accessed /\ ok /\ vmreq.write_en
                       THEN MemWrite(t, chunk_size, walk.pdst)
                       ELSE vmmem
           /\ IF accessed /\ ~ok
              THEN /\ vmpc' = "done"
                   /\ vmret' = -1
                   /\ UNCHANGED <<walk, vmpages>>
              ELSE /\ walk' = [walk EXCEPT
                                  !.pdst = IF vmreq.dst THEN @ + chunk_size ELSE @,
                                  !.size = @ - chunk_size,
                                  !.address = @ + chunk_size]
                   /\ vmpages' = Append(vmpages,
                          [valid |-> walk.pte.valid, prt |-> walk.pte.prt,
                           system |-> walk.pte.system,
                           start_addr |-> start_addr, chunk_size |-> chunk_size,
                           page_start_addr |-> page_start_addr,
                           page_end_addr |-> page_end_addr, vm |-> walk])
                   /\ IF walk.size - chunk_size # 0
                      THEN /\ vmpc' = "page"
                           /\ UNCHANGED vmret
                      ELSE /\ vmpc' = "done"
                           /\ vmret' = 0
    /\ UNCHANGED <<vmctx, vmreq>>
    /\ UNCHANGED pktvars

\* ------------------------------------------------------------------------
\* GPU virtual memory: the pre-GFX9 page walk (umr_access_vram_vi)
\* ------------------------------------------------------------------------
ViPde(e) ==
    [frag_size |-> (e.hi \div 2048) % 32, pte_base_addr |-> (e.page % (2 ^ 28)) * 4096, valid |-> Bit(e.lo, 0)]

\* the system flag of the PTE is not looked at
ViPte_vram(e) ==
    [page_base_addr |-> (e.page % (2 ^ 28)) * 4096, fragment |-> (e.lo \div 128) % 32,
     system |-> FALSE, valid |-> Bit(e.lo, 0)]

ViPte(e) ==
    [page_base_addr |-> (e.page % (2 ^ 28)) * 4096, fragment |-> (e.lo \div 128) % 32,
     system |-> Bit(e.lo, 1), valid |-> Bit(e.lo, 0)]

\* the prologue: the registers, and the address made relative to the table
umr_access_vram_vi ==
    /\ vmpc = "vi"
    /\ vmpc' = "vi_page"
    /\ walk' = [NoWalk EXCEPT !.address = vmreq.address - vmctx.start,
                              !.size = vmreq.size,
                              !.block_size = vmctx.block_size]
    /\ UNCHANGED <<vmctx, vmmem, vmreq, vmlog, vmpages, vmret>>
    /\ UNCHANGED pktvars

\* one round of the do-loop: the PDE (depth 1 only), the PTE, the access
vi_page ==
    /\ vmpc = "vi_page"
    /\ LET address == walk.address
           bs == walk.block_size
           base == vmctx.base.page * 4096
           two == vmctx.depth = 1
           pde_idx == (address \div (2 ^ (21 + bs))) % (2 ^ (40 - 12 - 9 - bs))
           tpde == [bk |-> "vram", addr |-> base + pde_idx * 8 - vmctx.vm_fb_base]
           pde == ViPde(Fetched(tpde))
           pde_read == IF two
                       THEN <<Access("PDE", tpde, 8, FetchOk(tpde), Fetched(tpde))>>
                       ELSE <<>>
           pde_ok == ~two \/ FetchOk(tpde)
           skip == two /\ FetchOk(tpde) /\ ~pde.valid
           pte_idx == IF two THEN (address \div 4096) % (2 ^ (9 + bs)) ELSE address \div 4096
           tpte == [bk |-> "vram",
                    addr |-> (IF two THEN pde.pte_base_addr ELSE base)
                             + pte_idx * 8 - vmctx.vm_fb_base]
           pte == ViPte(Fetched(tpte))
           pte_read == IF pde_ok /\ ~skip
                       THEN <<Access("PTE", tpte, 8, FetchOk(tpte), Fetched(tpte))>>
                       ELSE <<>>
           walked == pde_ok /\ ~skip /\ FetchOk(tpte)
           invalid_page == vmreq.dst /\ (skip \/ (walked /\ ~pte.valid))
           mapped == gpu_bus_to_cpu_address(pte.page_base_addr) + (address % 4096)
           start_addr == IF skip THEN address % 4096
                         ELSE IF two /\ ~pte.system THEN mapped - vmctx.vm_fb_offset
                         ELSE mapped
           chunk_size == IF (start_addr % 4096) + walk.size >= 4096
                         THEN 4096 - (start_addr % 4096)
                         ELSE walk.size
           t == [bk |-> (IF pte.system THEN "sram" ELSE "vram"), addr |-> start_addr]
           ok == BackendOk(t, chunk_size)
           reached == (skip \/ walked) /\ ~invalid_page
           page_read == IF reached /\ vmreq.dst
                        THEN <<Access("user page", t, chunk_size, ok, NoEntry)>>
                        ELSE <<>>
       IN  /\ vmlog' = vmlog \o pde_read \o pte_read \o page_read
           /\ vmmem' = IF reached /\ vmreq.dst /\ ok /\ vmreq.write_en
                       THEN MemWrite(t, chunk_size, walk.pdst)
                       ELSE vmmem
           /\ IF ~reached
              THEN /\ vmpc' = "done"
                   /\ vmret' = -1
                   /\ UNCHANGED <<walk, vmpages>>
              ELSE IF vmreq.dst /\ ~ok
              THEN /\ vmpc' = "done"
                   /\ vmret' = -1
                   /\ UNCHANGED <<walk, vmpages>>
              ELSE /\ walk' = [walk EXCEPT
                                  !.pdst = IF vmreq.dst THEN @ + chunk_size ELSE @,
                                  !.size = @ - chunk_size,
                                  !.address = @ + chunk_size]
                   /\ vmpages' = Append(vmpages,
                          [valid |-> ~skip /\ pte.valid, prt |-> FALSE,
                           system |-> ~skip /\ pte.system,
                           start_addr |-> start_addr, chunk_size |-> chunk_size,
                           page_start_addr |-> start_addr - (start_addr % 4096),
                           page_end_addr |-> start_addr - (start_addr % 4096) + 4096,
                           vm |-> [walk EXCEPT !.pte_entry = Fetched(tpte)]])
                   /\ IF walk.size - chunk_size # 0
                      THEN /\ vmpc' = "vi_page"
                           /\ UNCHANGED vmret
                      ELSE /\ vmpc' = "done"
                           /\ vmret' = 0
    /\ UNCHANGED <<vmctx, vmreq>>
    /\ UNCHANGED pktvars

\* the caller reads back the range it has just written: the same call with
\* write_en = 0, the tables and the registers as they were
umr_read_vram ==
    /\ vmpc = "done"
    /\ vmret = 0
    /\ vmreq.write_en
    /\ vmreq' = [vmreq EXCEPT !.write_en = FALSE]
    /\ vmpc' = "call"
    /\ walk' = NoWalk
    /\ vmlog' = <<>>
    /\ vmpages' = <<>>
    /\ UNCHANGED <<vmctx, vmmem, vmret>>
    /\ UNCHANGED pktvars

\* ------------------------------------------------------------------------
\* GPU virtual memory: contexts, memory images and requests explored
\* ------------------------------------------------------------------------
\* physical page numbers: the root table, the PTB below PDB[0], the PTB a
\* PTE-Further points to, and a 2 MiB page
TablePages ==
    [root |-> 16, ptb |-> 17, further |-> 18, big |-> 512]

\* the raw entry of kind k in the layout of the GFX generation: PTE i (a
\* user page in VRAM or system memory, an invalid page, an invalid PRT page,
\* a PTE-Further), a PDE (a table pointer, a PDE that is a PTE), or the root
\* entry held by the PAGE_TABLE_BASE_ADDR registers with fragment size i
MkEntry(maj, k, i) ==
    LET leaf == IF maj = 12 THEN 32768 ELSE 0
    IN  CASE k = "vram" -> Entry(leaf, 32 + 2 * i, 1)
          [] k = "sys" -> Entry(leaf, 48 + 2 * i, 3)
          [] k = "inval" -> Entry(leaf, 32 + 2 * i, 0)
          [] k = "prt" -> Entry(leaf + (IF maj = 12 THEN 256 ELSE 8), 32 + 2 * i, 0)
          [] k \in {"further", "loop"} ->
                 Entry((IF maj = 12 THEN 0 ELSE 256), TablePages.further, 1)
          [] k = "table" -> Entry(0, TablePages.ptb, 1)
          [] k = "notable" -> Entry(0, TablePages.ptb, 0)
          [] k = "big" -> Entry((IF maj = 12 THEN 32768 ELSE 64), TablePages.big, 1)
          [] k = "biginval" -> Entry((IF maj = 12 THEN 32768 ELSE 64), TablePages.big, 0)
          [] k = "root" -> Entry(i * (IF maj = 12 THEN 1024 ELSE 2048), TablePages.root, 1)

\* physical memory of context c: a PDB with entries ds (none for a flat
\* table) over a PTB with entries ks, the table a PTE-Further points to (two
\* user pages, or entries that point back to the table itself), and the
\* frames of the user pages but those in missing.  A VRAM address lives in
\* system memory when the zero-frame-buffer mode maps it through the AGP
\* aperture.
VmMemory(c, ds, ks, missing) ==
    LET place(addr) ==
            IF c.fb_top < c.fb_bottom /\ addr >= c.agp_bot /\ addr < c.agp_top
            THEN <<"sram", (addr - c.agp_bot) + c.agp_base>>
            ELSE <<"vram", addr>>
        table(p, es) ==
            [k \in {place(p * 4096 + 8 * (i - 1)) : i \in 1..Len(es)} |->
                es[CHOOSE j \in 1..Len(es) : place(p * 4096 + 8 * (j - 1)) = k]]
        \* an entry that points into VRAM holds the address as the GPU sees
        \* it: above the physical one by the frame-buffer offset (GFX9-12,
        \* and the pages of a two-level pre-GFX9 table) or by the
        \* frame-buffer base (the tables of a pre-GFX9 context)
        up(e, leaf) ==
            IF Bit(e.lo, 1) THEN e
            ELSE IF c.maj >= 9 \/ (leaf /\ c.depth = 1)
            THEN [e EXCEPT !.page = @ + c.vm_fb_offset \div 4096]
            ELSE IF leaf THEN e
            ELSE [e EXCEPT !.page = @ + c.vm_fb_base \div 4096]
        leaves == [i \in 1..Len(ks) |-> up(MkEntry(c.maj, ks[i], i - 1), TRUE)]
        pdes == [i \in 1..Len(ds) |-> up(MkEntry(c.maj, ds[i], 0), FALSE)]
        second == IF "loop" \in {ks[i] : i \in 1..Len(ks)}
                  THEN <<up(MkEntry(c.maj, "further", 0), FALSE),
                         up(MkEntry(c.maj, "further", 1), FALSE)>>
                  ELSE <<up(MkEntry(c.maj, "vram", 2), TRUE), MkEntry(c.maj, "sys", 3)>>
        frames4k == {<<place(f * 4096)[1], place(f * 4096)[2] \div 4096>> :
                        f \in (32..39) \cup {256, 257, TablePages.big,
                                             TablePages.big + 1, TablePages.big + 511}}
                    \cup {<<"sram", f>> : f \in 48..55}
    IN  [tbl |-> (IF ds = <<>>
                  THEN table(TablePages.root, leaves)
                  ELSE table(TablePages.root, pdes) @@ table(TablePages.ptb, leaves))
                 @@ table(TablePages.further, second),
         data |-> frames4k \ missing,
         written |-> <<>>]

\* the registers of a context; VMID 1, always translated
VmContext(maj, depth, start, end, frag) ==
    [maj |-> maj, vmid |-> 1, uq_active |-> FALSE, sam |-> 1,
     system_aperture_low |-> 0, system_aperture_high |-> 0,
     fb_bottom |-> 0, fb_top |-> 16777216,
     agp_bot |-> 0, agp_top |-> 0, agp_base |-> 0,
     start |-> start, end |-> end, base |-> MkEntry(maj, "root", frag),
     depth |-> depth, block_size |-> 0, vm_fb_offset |-> 0, vm_fb_base |-> 0]

\* the contexts, each with its memory images and the addresses asked for:
\* flat tables of four pages at 1 MiB (GFX9, 11, 12; with 8 KiB fragments;
\* with the frame buffer mapped through the AGP aperture; as VMID 0 under a
\* system access mode with the aperture over the span), two-level tables of
\* 4 MiB at 0, and the pre-GFX9 tables of depth 0 and 1
VmSetups ==
    LET flat(maj, frag) == VmContext(maj, 0, 1048576, 1048576 + 3 * 4096, frag)
        twolevel(maj) == VmContext(maj, 1, 0, 4194304 - 4096, 0)
        zfb == [flat(9, 0) EXCEPT !.fb_bottom = 33554432, !.fb_top = 16777216,
                                  !.agp_bot = 0, !.agp_top = 33554431,
                                  !.agp_base = 67108864]
        sam(mode) == [flat(9, 0) EXCEPT !.vmid = 0, !.sam = mode,
                                        !.system_aperture_low = 1048576,
                                        !.system_aperture_high = 1310720]
        vi(depth) == [VmContext(8, depth, 1048576, 0, 0) EXCEPT
                         !.base = Entry(0, TablePages.root, 0)]
        \* the frame buffer seen by the GPU 8 MiB above its physical place
        shifted(c) == [c EXCEPT !.vm_fb_offset = 8388608, !.base.page = @ + 2048]
        \* the same before GFX9, the tables addressed from a base of 16 MiB
        vishifted == [vi(1) EXCEPT !.vm_fb_offset = 8388608, !.vm_fb_base = 16777216,
                                   !.base.page = @ + 4096]
        \* every table 64 bytes above a 4 KiB boundary, and bit 6 set in
        \* every entry: part of the address in a table pointer, the write
        \* flag in a leaf
        skewed(u) ==
            [ctx |-> [u.ctx EXCEPT !.base.lo = @ + 64],
             mem |-> [u.mem EXCEPT !.tbl =
                         [k \in {<<q[1], q[2] + 64>> : q \in DOMAIN u.mem.tbl} |->
                             [u.mem.tbl[<<k[1], k[2] - 64>>] EXCEPT !.lo = @ + 64]]],
             addr |-> u.addr]
        \* the PAGE_TABLE_BASE_ADDR registers read back as all ones (the
        \* page field is 18 bits wide here: addresses stay below 2^31), and
        \* a memory in which system memory answers at the address the
        \* all-ones root points to
        gated == [twolevel(9) EXCEPT !.base = Entry(65535, 262143, 4095)]
        answering(mem) ==
            [mem EXCEPT !.tbl =
                [k \in {IF q[2] \div 4096 = TablePages.root
                        THEN <<"sram", 262143 * 4096 + 4032 + (q[2] % 4096)>>
                        ELSE q : q \in DOMAIN mem.tbl} |->
                    IF k[1] = "sram" /\ k[2] \div 4096 = 262143
                    THEN mem.tbl[<<"vram", TablePages.root * 4096 + (k[2] % 4096) - 4032>>]
                    ELSE mem.tbl[k]]]
        \* a user queue is active, the system pages of the client are out
        \* of reach of the iomem file, and the client's memory holds the two
        \* pages at the start of the span
        uq == [flat(9, 0) EXCEPT !.uq_active = TRUE]
        client(mem) == [mem EXCEPT !.data = @ \cup {<<"hmm", 256>>, <<"hmm", 257>>}]
        kinds == {"vram", "sys", "inval", "prt", "further", "loop"}
        addrs(c) == {c.start - 4096, c.start, c.start + 2, c.start + 4092,
                     c.end + 4, c.end + 4096}
        setups(c, mems, as) == {[ctx |-> c, mem |-> m, addr |-> a] : m \in mems, a \in as}
    IN  setups(flat(9, 0),
               {VmMemory(flat(9, 0), <<>>, <<k0, k1, "vram", "vram">>, missing) :
                   k0 \in kinds, k1 \in kinds \ {"loop"},
                   missing \in {{}, {<<"vram", 34>>}}},
               addrs(flat(9, 0)))
        \cup UNION {setups(c,
                           {VmMemory(c, <<>>, <<k0, "sys", "vram", "vram">>, {}) :
                               k0 \in {"vram", "prt", "further", "loop"}},
                           addrs(c)) :
                    c \in {flat(12, 0), flat(11, 0), zfb}}
        \cup setups(flat(9, 1),
                    {VmMemory(flat(9, 1), <<>>, <<k0, "vram">>, {}) :
                        k0 \in {"vram", "further"}},
                    addrs(flat(9, 1)) \cup {1048576 + 8188})
        \cup UNION {setups(c,
                           {VmMemory(c, <<d0, d1>>, <<k0, "sys">>, {}) :
                               d0 \in {"table", "notable"}, d1 \in {"big", "biginval"},
                               k0 \in {"vram", "inval"}},
                           {0, 4092, 8192, 2097152, c.end + 4, c.end + 4096}) :
                    c \in {twolevel(9), twolevel(12)}}
        \cup UNION {setups(c,
                           {VmMemory(c, <<>>, <<k0, "sys", "vram", "vram">>, {}) :
                               k0 \in {"vram", "further"}},
                           {c.start, c.start + 4092}) :
                    c \in {shifted(flat(9, 0)), shifted(flat(9, 1))}}
        \cup setups(shifted(twolevel(9)),
                    {VmMemory(shifted(twolevel(9)), <<"table", "big">>, <<"vram", "sys">>, {})},
                    {0, 4092, 2097152, 2097152 + 4096})
        \cup UNION {setups(c,
                           {VmMemory(c, <<>>, <<"vram", "sys", "vram", "vram">>, {})},
                           addrs(c) \cup {2097152}) :
                    c \in {sam(0), sam(2), sam(3)}}
        \cup setups(gated,
                    {VmMemory(gated, <<"table", "big">>, <<"vram", "sys">>, {}),
                     answering(VmMemory(gated, <<"table", "big">>, <<"vram", "sys">>, {}))},
                    {0, 4092, 2097152})
        \cup setups(uq,
                    {client(VmMemory(uq, <<>>, <<"sys", k1, "vram", "vram">>, missing)) :
                        k1 \in {"sys", "vram"},
                        missing \in {{}, {<<"sram", 48>>, <<"sram", 50>>}}},
                    {uq.start, uq.start + 4092, uq.start + 4096})
        \cup {skewed(u) : u \in
                UNION {setups(c,
                              {VmMemory(c, <<>>, <<k0, "sys", "vram", "vram">>, {}) :
                                  k0 \in {"vram", "further"}},
                              {c.start, c.start + 4092}) :
                       c \in {flat(9, 0), flat(12, 0), shifted(flat(9, 0))}}
                \cup UNION {setups(c,
                                   {VmMemory(c, <<"table", "big">>, <<"vram", "sys">>, {})},
                                   {0, 4092, 2097152}) :
                            c \in {twolevel(9), twolevel(12)}}}
        \cup setups(vi(0),
                    {VmMemory(vi(0), <<>>, <<k0, k1>>, {}) :
                        k0 \in {"vram", "sys", "inval"}, k1 \in {"vram", "sys", "inval"}},
                    {1048576, 1048576 + 4092})
        \cup setups(vi(1),
                    {VmMemory(vi(1), <<d0>>, <<k0, k1>>, {}) :
                        d0 \in {"table", "notable"},
                        k0 \in {"vram", "sys", "inval"}, k1 \in {"vram", "sys", "inval"}},
                    {1048576, 1048576 + 4092})
        \cup setups(vishifted,
                    {VmMemory(vishifted, <<"table">>, <<k0, k1, "vram">>, {}) :
                        k0 \in {"vram", "sys"}, k1 \in {"vram", "sys"}},
                    {1048576, 1048576 + 4092, 1048576 + 4096, 1048576 + 8192})

\* the request: with a buffer to read into or write from, or decode only
VmRequests(a) ==
    {[address |-> a, size |-> n, dst |-> m # "decode", write_en |-> m = "write"] :
        n \in {4, 8, 4096}, m \in {"decode", "read", "write"}}

\* a call of umr_access_vram(); no packet stream is being decoded
\* no buffer is being decoded
PktIdle ==
    /\ fmt = "none"
    /\ buf = <<>>
    /\ tail = <<>>
    /\ pc = "idle"
    /\ frames = <<>>
    /\ result = NullStream
    /\ pstream = FALSE
    /\ allocs = <<>>
    /\ live = {}
    /\ badfree = FALSE
    /\ oob = FALSE
    /\ errs = 0
    /\ opts = DefaultOptions
    /\ gmem = NoMem
    /\ reads = <<>>
    /\ regs = <<>>
    /\ regids = <<>>
    /\ freed = FALSE
    /\ copy = NoCopy
    /\ copyfreed = FALSE
    /\ ui = <<>>
    /\ cont = 1
    /\ ncalls = 0

InitVm ==
    /\ PktIdle
    /\ UqIdle
    /\ JobsIdle
    /\ \E s \in VmSetups :
          /\ vmctx = s.ctx
          /\ vmmem = s.mem
          /\ vmreq \in VmRequests(s.addr)
    /\ vmpc = "call"
    /\ walk = NoWalk
    /\ vmlog = <<>>
    /\ vmpages = <<>>
    /\ vmret = 0

NextVm ==
    \/ umr_access_vram
    \/ umr_access_vram_ai
    \/ ai_page
    \/ ai_pde
    \/ pte_further
    \/ pde_is_pte
    \/ ai_user_page
    \/ umr_access_vram_vi
    \/ vi_page
    \/ umr_read_vram

SpecVm ==
    InitVm /\ [][NextVm]_vars

\* ------------------------------------------------------------------------
\* GPU virtual memory: properties
\* ------------------------------------------------------------------------
\* the request is walked by the GFX9-12 engine rather than passed through
\* by the VMID-0 system-access-mode rules
AiTranslated ==
    vmctx.maj >= 9 /\ ~SamPassthrough(vmreq.address)

\* the call has not gone past the range check, and has made no access
NothingTouched ==
    /\ vmlog = <<>>
    /\ vmpc \in {"call", "ai", "done"}
    /\ vmpc = "done" => vmret = -1

\* C2 (as stated): a translated address outside [start_addr, end_addr] makes
\* the call fail without any page-table fetch and without any data access.
C2_OutsideSpanRejected ==
    (AiTranslated /\ (vmreq.address < vmctx.start \/ vmreq.address > vmctx.end))
        => NothingTouched

\* C2 (amended): end_addr is the address of the last page of the span, so the
\* span the code enforces is [start_addr, end_addr + 0xFFF]; a translated
\* address outside it makes the call fail without any fetch or data access.
C2_OutsideLastPageRejected ==
    (AiTranslated /\ (vmreq.address < vmctx.start
                      \/ vmreq.address > vmctx.end + VM_PAGE_OFFSET_MASK))
        => NothingTouched

\* an aligned address above the last page was turned down by the range check
C2_RejectedAboveLastPage ==
    /\ AiTranslated
    /\ vmreq.address % 4 = 0
    /\ vmreq.address > vmctx.end + VM_PAGE_OFFSET_MASK
    /\ vmpc = "done"
    /\ vmret = -1
    /\ vmlog = <<>>

\* a PDE that was fetched from a directory, is not a PDE-as-PTE, and is invalid
BadPdeFetched ==
    \E i \in DOMAIN vmlog :
        /\ vmlog[i].op = "PDE"
        /\ vmlog[i].ok
        /\ ~umr_decode_pde_entry(vmctx.maj, vmlog[i].entry).pte
        /\ ~umr_decode_pde_entry(vmctx.maj, vmlog[i].entry).valid

\* no page is, or was, carried past the leaf check with a leaf that is
\* neither valid nor PRT
NoBadLeafPassed ==
    /\ vmpc = "user_page" => (walk.pte.valid \/ walk.pte.prt)
    /\ \A i \in DOMAIN vmpages : vmpages[i].valid \/ vmpages[i].prt

\* C3 (as stated): an invalid visited PDE, or an invalid terminal leaf that
\* is not PRT, makes the call return an error for every request: read, write
\* or decode only.
C3_InvalidEntryAlwaysFails ==
    vmctx.maj >= 9 =>
        /\ BadPdeFetched => (vmpc = "done" /\ vmret = -1)
        /\ NoBadLeafPassed

\* C3 (amended): an invalid PDE fetched from a directory makes the call
\* return an error for every request; an invalid terminal leaf that is not
\* PRT makes it return an error only when a destination buffer is supplied.
\* A decode-only call is never failed by an invalid leaf: it fails only on
\* misalignment, an address out of range, a failed fetch or an invalid PDE.
C3_InvalidLeafFailsWithBuffer ==
    vmctx.maj >= 9 =>
        /\ BadPdeFetched => (vmpc = "done" /\ vmret = -1)
        /\ vmreq.dst => NoBadLeafPassed
        /\ (~vmreq.dst /\ vmpc = "done" /\ vmret = -1) =>
               \/ vmreq.address % 4 # 0
               \/ vmreq.size % 4 # 0
               \/ ~InRange(vmreq.address)
               \/ \E i \in DOMAIN vmlog : ~vmlog[i].ok
               \/ BadPdeFetched

\* a read or write met a fetched leaf that is neither valid nor PRT and
\* returned an error
C3_InvalidLeafRejected ==
    /\ vmctx.maj >= 9
    /\ vmreq.dst
    /\ vmpc = "done"
    /\ vmret = -1
    /\ vmlog # <<>>
    /\ vmlog[Len(vmlog)].op = "PTE"
    /\ vmlog[Len(vmlog)].ok
    /\ walk.pte_entry = vmlog[Len(vmlog)].entry
    /\ ~walk.pte.valid
    /\ ~walk.pte.prt

\* C4: a leaf with its continuation flag set is followed for exactly one more
\* table level: at most one extra leaf fetch per page, for any table contents.
C4_OneExtraLeafFetch ==
    vmctx.maj >= 9 => walk.hops <= 1

RECURSIVE SumChunks(_)
SumChunks(ps) ==
    IF ps = <<>> THEN 0 ELSE Head(ps).chunk_size + SumChunks(Tail(ps))

UserAccesses ==
    SelectSeq(vmlog, LAMBDA a : a.op = "user page")

\* a call with a buffer that walked the tables and returned success
WalkedAccess ==
    /\ vmpc = "done"
    /\ vmret = 0
    /\ vmreq.dst
    /\ ~(vmctx.maj >= 9 /\ SamPassthrough(vmreq.address))

\* every finished page step stays inside its page, and the steps add up
ChunksCoverRequest ==
    /\ SumChunks(vmpages) = vmreq.size
    /\ \A i \in DOMAIN vmpages :
          /\ vmpages[i].page_start_addr <= vmpages[i].start_addr
          /\ vmpages[i].start_addr + vmpages[i].chunk_size <= vmpages[i].page_end_addr

\* C10 (as stated): the access is a sequence of per-page backend accesses
\* whose lengths sum to len, each inside one page, each sent to system memory
\* when the page's system flag is 1 and to VRAM when it is 0.
C10_OneAccessPerPageByFlag ==
    WalkedAccess =>
        /\ ChunksCoverRequest
        /\ Len(UserAccesses) = Len(vmpages)
        /\ \A i \in DOMAIN vmpages :
              i <= Len(UserAccesses) =>
                 /\ UserAccesses[i].len = vmpages[i].chunk_size
                 /\ UserAccesses[i].to.bk = (IF vmpages[i].system THEN "sram" ELSE "vram")

\* the backend call a valid page must end in: which of the two access
\* functions is called, and the address it is given
Expected(p) ==
    IF p.system
    THEN [bk |-> "sram", addr |-> p.start_addr]
    ELSE IF vmctx.maj >= 9 /\ Zfb /\ p.start_addr >= Agp.bot /\ p.start_addr < Agp.top
    THEN [bk |-> "sram", addr |-> (p.start_addr - Agp.bot) + Agp.base]
    ELSE [bk |-> "vram", addr |-> p.start_addr]

\* C10 (amended): a successful translated access with a buffer is a sequence
\* of per-page steps, each clipped at its page's end, whose lengths sum to
\* len.  A step on a valid page is one backend access: to system memory when
\* the system flag is 1, or when it is 0 and the GFX9-12 engine is in
\* zero-frame-buffer mode with the address inside the AGP aperture (remapped
\* to addr - agp_bot + agp_base); to VRAM otherwise.  A step on a PRT page
\* that is not valid makes no backend access, yet its length counts.
C10_ValidPagesAccessedByRoute ==
    WalkedAccess =>
        LET vp == SelectSeq(vmpages, LAMBDA p : p.valid)
        IN  /\ ChunksCoverRequest
            /\ \A i \in DOMAIN vmpages : vmpages[i].valid \/ vmpages[i].prt
            /\ Len(UserAccesses) = Len(vp)
            /\ \A i \in DOMAIN vp :
                  i <= Len(UserAccesses) =>
                     /\ UserAccesses[i].len = vp[i].chunk_size
                     /\ UserAccesses[i].to = Expected(vp[i])
                     /\ UserAccesses[i].ok

\* a read over two pages with different system flags made exactly two
\* accesses, one to each backend
C10_TwoPagesTwoBackends ==
    /\ WalkedAccess
    /\ ~vmreq.write_en
    /\ Len(vmpages) = 2
    /\ vmpages[1].valid
    /\ vmpages[2].valid
    /\ vmpages[1].system # vmpages[2].system
    /\ Len(UserAccesses) = 2
    /\ {UserAccesses[1].bk, UserAccesses[2].bk} = {"sram", "vram"}

\* the page steps whose leaf was valid, in order: with a buffer, those that
\* made a backend access
ValidPages ==
    SelectSeq(vmpages, LAMBDA p : p.valid)

\* the address of page step p of a GFX9-12 walk, from the raw terminal entry:
\* its page base, less the frame-buffer offset unless it is a system page,
\* plus the offset of the address within what the entry maps: the span of
\* one entry of the directory level where a PDE-as-PTE ended the walk (the
\* address bits below its index), else 2^(12 + frag_size) bytes, frag_size
\* being that of the last PDE or of the PTE-Further entry followed last
LeafAddress(p) ==
    LET w == p.vm
        leaf == umr_decode_pte_entry(vmctx.maj, w.pte_entry)
        base == leaf.page_base_addr - (IF leaf.system THEN 0 ELSE vmctx.vm_fb_offset)
        level_bits == (w.total_vm_bits - w.top_pdb_bits)
                      - (vmctx.depth - w.current_depth) * VM_PDB_ENTRY_BITS
        mapped == IF w.pde_was_pte
                  THEN 2 ^ level_bits
                  ELSE 2 ^ (VM_PAGE_SIZE_BITS + w.pde.frag_size)
    IN  base + (w.address % mapped)

InvalidMappingMet ==
    /\ vmpc = "done"
    /\ vmret = -1
    /\ vmlog # <<>>
    /\ vmlog[Len(vmlog)].op \in {"PDE", "PTE"}
    /\ vmlog[Len(vmlog)].ok
    /\ ~Bit(vmlog[Len(vmlog)].entry.lo, 0)

\* C12: a request that meets a page without a valid mapping fails as a
\* whole: the call returns an error and no byte of any page of the request
\* has been transferred.
C12_FailsAtomically ==
    InvalidMappingMet => \A i \in DOMAIN UserAccesses : ~UserAccesses[i].ok

\* ------------------------------------------------------------------------
\* PM4 shader discovery: properties
\* ------------------------------------------------------------------------
\* the PM4 packet lists at hand: those of the streams being decoded, and
\* that of the stream returned
Pm4NodeSeqs ==
    IF fmt # "pm4" THEN {}
    ELSE {frames[k].nodes : k \in DOMAIN frames} \cup {result.nodes}

\* packet i of ns is a SET_SH_REG that writes COMPUTE_PGM_LO and
\* COMPUTE_PGM_HI, and the packet after it is a DISPATCH_DIRECT
SetThenDispatch(ns, i) ==
    /\ i + 1 \in DOMAIN ns
    /\ ns[i].pkttype = 3
    /\ ns[i].opcode = 118
    /\ ns[i].n_words = 3
    /\ umr_reg_name(11264 + ns[i].words[1].lo) = "mmCOMPUTE_PGM_LO"
    /\ ns[i + 1].pkttype = 3
    /\ ns[i + 1].opcode = 21

\* the dispatch packet d carries exactly one shader: the compute program
\* at (hi << 40) | (lo << 8), hi and lo being the values set packet s wrote:
\* byte 0 of the address is zero, bytes 1 to 4 are lo, and bytes 5 to 7 are
\* the low three bytes of hi
OneComputeShader(s, d) ==
    LET bytes(w) == <<w.lo % 256, w.lo \div 256, w.hi % 256, w.hi \div 256>>
        lo == bytes(s.words[2])
        hi == bytes(s.words[3])
    IN  /\ Len(d.shader) = 1
        /\ d.shader[1].type = "compute"
        /\ d.shader[1].addr = A64(256 * lo[1], lo[2] + 256 * lo[3],
                                  lo[4] + 256 * hi[1], hi[2] + 256 * hi[3])

\* C13 (as stated): where a register-set packet writes COMPUTE_PGM_LO and
\* COMPUTE_PGM_HI and DISPATCH_DIRECT follows at once, the dispatch node
\* carries exactly one ShaderProgram, of compute type, at (hi << 40) |
\* (lo << 8), and no other node of the stream carries any.
C13_SetThenDispatchOneShader ==
    \A ns \in Pm4NodeSeqs :
        \A i \in DOMAIN ns :
            SetThenDispatch(ns, i) =>
                /\ OneComputeShader(ns[i], ns[i + 1])
                /\ \A j \in DOMAIN ns : j # i + 1 => ns[j].shader = <<>>

\* C13 (amended): that holds when lo and hi are not both zero and compute
\* shaders are enabled; ShaderPrograms are attached to dispatch and draw
\* packets only, never to a register-set packet or any other packet.
C13_NonZeroSetThenDispatch ==
    \A ns \in Pm4NodeSeqs :
        /\ \A i \in DOMAIN ns :
              (/\ SetThenDispatch(ns, i)
               /\ (ns[i].words[2] # ZeroWord \/ ns[i].words[3] # ZeroWord)
               /\ "compute" \in opts.shader_enable) =>
                  OneComputeShader(ns[i], ns[i + 1])
        /\ \A j \in DOMAIN ns :
              ns[j].shader # <<>> =>
                  ns[j].pkttype = 3 /\ ns[j].opcode \in ComputeOps \cup DrawOps

\* a decoded stream of a register-set packet and a dispatch, the latter
\* with its one compute shader
C13_DispatchCarriesShader ==
    /\ fmt = "pm4"
    /\ pc = "ready"
    /\ Len(result.nodes) = 2
    /\ SetThenDispatch(result.nodes, 1)
    /\ result.nodes[1].shader = <<>>
    /\ OneComputeShader(result.nodes[1], result.nodes[2])

\* the values the tracker rs holds for the two address registers of the
\* stage a shader of the given type belongs to; a register never written
\* is absent
StagePair(rs, type) ==
    LET t == CHOOSE x \in {ShaderTypes[i] : i \in DOMAIN ShaderTypes} : x.type = type
        hi == umr_shader_find_partial_regpair(rs, t.hi)
        lo == umr_shader_find_partial_regpair(rs, t.lo)
    IN  [present |-> hi # 0 /\ lo # 0,
         hi |-> IF hi # 0 THEN rs[hi].value ELSE ZeroWord,
         lo |-> IF lo # 0 THEN rs[lo].value ELSE ZeroWord]

\* C14 (as stated): a dispatch or draw packet registers a ShaderProgram for
\* a stage only if the tracker holds both address registers of the stage
\* with non-zero values.
C14_BothHalvesNonZero ==
    \A ns \in Pm4NodeSeqs :
        \A j \in DOMAIN ns :
            \A k \in DOMAIN ns[j].shader :
                LET v == StagePair(ns[j].shader[k].regs, ns[j].shader[k].type)
                IN  v.present /\ v.hi # ZeroWord /\ v.lo # ZeroWord

\* C14 (amended): the ShaderProgram is registered exactly when the stage is
\* enabled and the tracker holds both registers with at least one of the
\* two values non-zero; none is registered when a register was never
\* written or both values are zero.
C14_EitherHalfNonZero ==
    /\ \A ns \in Pm4NodeSeqs :
          \A j \in DOMAIN ns :
              \A k \in DOMAIN ns[j].shader :
                  LET v == StagePair(ns[j].shader[k].regs, ns[j].shader[k].type)
                  IN  v.present /\ (v.hi # ZeroWord \/ v.lo # ZeroWord)
    /\ (fmt = "pm4" /\ pc = "decode" /\ Top.via = "none" /\ Top.nodes # <<>>) =>
          LET n == Top.nodes[Len(Top.nodes)]
              stages == IF n.pkttype # 3 THEN {}
                        ELSE IF n.opcode \in ComputeOps THEN {"compute"}
                        ELSE IF n.opcode \in DrawOps
                        THEN {"vertex", "pixel", "es", "gs", "hs", "ls"}
                        ELSE {}
          IN  \A st \in stages :
                  LET v == StagePair(regs, st)
                  IN  (\E k \in DOMAIN n.shader : n.shader[k].type = st)
                          <=> /\ st \in opts.shader_enable
                              /\ v.present
                              /\ (v.hi # ZeroWord \/ v.lo # ZeroWord)

\* a draw packet registered a pixel shader whose high address register
\* holds zero
C14_DrawWithZeroHigh ==
    /\ fmt = "pm4"
    /\ pc = "decode"
    /\ Top.nodes # <<>>
    /\ Top.nodes[Len(Top.nodes)].opcode \in DrawOps
    /\ Len(Top.nodes[Len(Top.nodes)].shader) = 1
    /\ Top.nodes[Len(Top.nodes)].shader[1].type = "pixel"
    /\ StagePair(regs, "pixel").present
    /\ StagePair(regs, "pixel").hi = ZeroWord
    /\ StagePair(regs, "pixel").lo # ZeroWord

\* the register writes made while decoding the packets ns, in order: with
\* those of the indirect buffers the packets refer to (nested), or without
RECURSIVE WritesOf(_, _)
WritesOf(ns, nested) ==
    IF ns = <<>> THEN <<>>
    ELSE LET n == Head(ns)
             own == IF n.pkttype = 3
                    THEN RegWrites(n.opcode, n.words, 0, A64(0, 0, 0, 0))
                    ELSE <<>>
             below == IF nested /\ ~n.ib.null THEN WritesOf(n.ib.nodes, nested) ELSE <<>>
         IN  own \o below \o WritesOf(Tail(ns), nested)

\* the registers and values a shader of packet j of the buffer at depth d
\* was found with are those in force after the given writes: for every
\* register the value written last
TrackerIs(d, j, nested) ==
    LET ws == Flatten([k \in 1..(d - 1) |-> WritesOf(frames[k].nodes, nested)])
              \o WritesOf(SubSeq(frames[d].nodes, 1, j), nested)
        last(nm) == CHOOSE i \in DOMAIN ws :
                        /\ umr_reg_name(ws[i].reg) = nm
                        /\ \A i2 \in DOMAIN ws : i2 > i => umr_reg_name(ws[i2].reg) # nm
        expected == {<<umr_reg_name(ws[i].reg), ws[last(umr_reg_name(ws[i].reg))].value>> :
                        i \in DOMAIN ws}
    IN  \A k \in DOMAIN frames[d].nodes[j].shader :
            LET rs == frames[d].nodes[j].shader[k].regs
            IN  /\ {<<rs[i].regname, rs[i].value>> : i \in DOMAIN rs} = expected
                /\ Len(rs) = Cardinality(expected)

\* C15 (as stated): register state flows from parent to child only: a
\* shader is found with the writes of the packets before it in its own
\* buffer and in the buffers that lead to it, never with the writes made
\* inside an indirect buffer that was followed earlier.
C15_ChildWritesInvisible ==
    (fmt = "pm4" /\ pc = "decode") =>
        \A d \in DOMAIN frames :
            \A j \in DOMAIN frames[d].nodes : TrackerIs(d, j, FALSE)

\* C15 (amended): the whole decode shares one tracker: a shader is found
\* with all the register writes decoded before its packet, those of the
\* parents and those of every indirect buffer followed earlier, a later
\* write to a register replacing the earlier one.
C15_OneSharedTracker ==
    (fmt = "pm4" /\ pc = "decode") =>
        \A d \in DOMAIN frames :
            \A j \in DOMAIN frames[d].nodes : TrackerIs(d, j, TRUE)

\* a dispatch in the parent, after an indirect buffer that wrote the
\* program address, found its shader with the registers the child wrote
C15_ParentSeesChildWrites ==
    /\ fmt = "pm4"
    /\ pc = "decode"
    /\ Len(frames) = 1
    /\ Len(Top.nodes) = 2
    /\ ~Top.nodes[1].ib.null
    /\ WritesOf(Top.nodes[1].ib.nodes, TRUE) # <<>>
    /\ WritesOf(Top.nodes, FALSE) = <<>>
    /\ Len(Top.nodes[2].shader) = 1
    /\ Top.nodes[2].shader[1].regs # <<>>

\* the read the caller issues after its write has returned: it had a buffer,
\* it succeeded, and every page of the range is validly mapped
ReadBackDone ==
    /\ vmpc = "done"
    /\ vmret = 0
    /\ vmreq.dst
    /\ ~vmreq.write_en
    /\ vmmem.written # <<>>
    /\ \A i \in DOMAIN vmpages : vmpages[i].valid

\* C16: after a successful write of N bytes to a range whose pages are all
\* validly mapped, a read of the same range, the tables and the registers
\* unchanged, returns the N bytes written: every data access of the read
\* returns the bytes the write took from the same offset of its buffer, and
\* the accesses add up to N bytes
C16_RoundTrip ==
    ReadBackDone =>
        LET data == SelectSeq(vmlog, LAMBDA a : a.op \in {"user page", "linear"})
        IN  /\ \A i \in DOMAIN data : data[i].ok /\ data[i].got = data[i].pdst
            /\ data # <<>>
            /\ data[Len(data)].pdst + data[Len(data)].len = vmreq.size
            /\ \A i \in 1..(Len(data) - 1) : data[i].pdst + data[i].len = data[i + 1].pdst
            /\ data[1].pdst = 0

\* C16 witness: eight bytes written across a page boundary, one page in
\* VRAM and one in system memory, have been read back
C16_ReadBackAcrossPages ==
    /\ ReadBackDone
    /\ vmreq.size = 8
    /\ Len(UserAccesses) = 2
    /\ UserAccesses[1].bk # UserAccesses[2].bk
    /\ UserAccesses[2].got = 4

\* a call with a buffer that the pre-GFX9 engine walked through a
\* two-level table and that returned success
ViTwoLevelDone ==
    /\ vmctx.maj <= 8
    /\ vmctx.depth = 1
    /\ vmreq.dst
    /\ vmpc = "done"
    /\ vmret = 0

WalkEnd(i) ==
    LET pos == CHOOSE j \in DOMAIN vmlog :
                   /\ vmlog[j].op = "user page"
                   /\ Cardinality({k \in 1..j : vmlog[k].op = "user page"}) = i
        fetched == pos > 2 /\ vmlog[pos - 2].op \in {"PDE", "PTE"}
    IN  [leaf |-> vmlog[pos - 1],
         dirop |-> IF fetched THEN vmlog[pos - 2].op ELSE "root",
         dir |-> IF fetched THEN vmlog[pos - 2].entry ELSE vmctx.base]

\* the calls looked at: with a buffer, translated by the GFX9-12 engine
\* outside the zero-frame-buffer mode, every page valid and accessed
RolesSeen ==
    /\ AiTranslated
    /\ ~Zfb
    /\ vmreq.dst
    /\ vmpc = "done"
    /\ vmret = 0
    /\ vmpages # <<>>
    /\ \A i \in DOMAIN vmpages : vmpages[i].valid

\* the masks of C18: the leaf was fetched from the followed entry masked to
\* bits 47:6 (less the frame-buffer offset for a table in VRAM) plus eight
\* times its index, and the page base is the leaf masked to bits 47:12
\* (less the frame-buffer offset for a page in VRAM)
MaskOfRole(i) ==
    LET p == vmpages[i]
        w == WalkEnd(i)
        fb(e) == IF (e.lo \div 2) % 2 = 1 THEN 0 ELSE vmctx.vm_fb_offset
    IN  /\ w.leaf.addr = (w.dir.page * 4096 + (w.dir.lo \div 64) * 64) - fb(w.dir)
                              + 8 * p.vm.pte_idx
        /\ w.leaf.entry = p.vm.pte_entry
        /\ p.page_start_addr = p.vm.pte_entry.page * 4096 - fb(p.vm.pte_entry)

C19_UnknownMajorDecodesToZero ==
    vmctx.maj \notin {9, 10, 11, 12} =>
        \A k \in DOMAIN vmmem.tbl :
            /\ umr_decode_pde_entry(vmctx.maj, vmmem.tbl[k]) =
                   [frag_size |-> 0, pte_base_addr |-> 0, valid |-> FALSE, system |-> FALSE,
                    pte |-> FALSE, further |-> FALSE, tfs_addr |-> FALSE]
            /\ umr_decode_pte_entry(vmctx.maj, vmmem.tbl[k]) =
                   [valid |-> FALSE, system |-> FALSE, fragment |-> 0, prt |-> FALSE,
                    further |-> FALSE, pte |-> FALSE, page_base_addr |-> 0]

\* C20: when the page-table base address registers of the context read back
\* as all ones, the call does not return success with data obtained by
\* walking the page tables from the all-ones root (the power-gated message
\* itself is emitted unconditionally once the registers have been read)
C20_AllOnesRootNotWalkedToSuccess ==
    (vmctx.maj >= 9 /\ vmctx.base = Entry(65535, 262143, 4095) /\ vmpc = "done") =>
        ~(/\ vmret = 0
          /\ \E i \in DOMAIN vmlog : vmlog[i].op \in {"PDE", "PTE"}
          /\ \E i \in DOMAIN vmlog : vmlog[i].op = "user page" /\ vmlog[i].ok)

\* the buffer of the scenario has been decoded with shader following on
ScenarioDecoded ==
    /\ fmt = "pm4"
    /\ buf = Pm4Scenario
    /\ ~opts.no_follow_shader
    /\ pc = "ready"

\* the stream has three nodes and one ShaderProgram, a compute program at
\* addr (four 16-bit halves, least significant first), on the dispatch node
ScenarioYields(addr) ==
    /\ ~result.null
    /\ Len(result.nodes) = 3
    /\ result.nodes[1].shader = <<>>
    /\ result.nodes[2].shader = <<>>
    /\ Len(result.nodes[3].shader) = 1
    /\ result.nodes[3].shader[1].type = "compute"
    /\ result.nodes[3].shader[1].addr = addr
    /\ \A i \in 1..3 : result.nodes[i].ib.null

\* C21 as stated: decoding [SET_SH_REG(COMPUTE_PGM_LO = 0x1000),
\* SET_SH_REG(COMPUTE_PGM_HI = 2), DISPATCH_DIRECT] with shader following
\* enabled yields 3 nodes and one compute ShaderProgram at 0x2_0000_1000
C21_ScenarioShaderAtHi32Lo ==
    ScenarioDecoded => ScenarioYields(A64(4096, 0, 2, 0))

\* C21, amended: it yields 3 nodes and one compute ShaderProgram at
\* (2 << 40) | (0x1000 << 8) = 0x200_0010_0000
C21_ScenarioShaderAtShiftedAddr ==
    ScenarioDecoded => ScenarioYields(A64(0, 16, 512, 0))

\* C21 witness: the scenario has been decoded, and its dispatch node
\* carries a shader whose size was computed by following it
C21_ScenarioFollowed ==
    /\ ScenarioDecoded
    /\ Len(result.nodes) = 3
    /\ result.nodes[3].opcode = 21
    /\ Len(result.nodes[3].shader) = 1
    /\ result.nodes[3].shader[1].size = ComputedShaderSize

\* C22: the chain of indirect buffers followed from one top-level buffer is
\* finite, whatever GPU memory holds: the decoder never enters an indirect
\* buffer that it is already decoding further up its call stack (the same
\* address, VMID and words), from where the same chain would be followed
\* again without end
C22_IbChainIsFinite ==
    fmt = "pm4" =>
        \A i, j \in DOMAIN frames :
            i < j => ~(/\ frames[i].from = frames[j].from
                       /\ frames[i].vmid = frames[j].vmid
                       /\ frames[i].words = frames[j].words)

\* C23: umr_umsch_decode_stream terminates on every buffer: the count of
\* remaining words goes down on each iteration and never wraps below zero.
\* The loop is never at a packet of zero words, which consumes nothing, and
\* the count never stands for a value of 2^32 - k
C23_RemainingWordsGoDown ==
    fmt = "umsch" =>
        /\ pc # "hang"
        /\ \A k \in DOMAIN frames : frames[k].nwords >= 0

\* C24: the pages of one request are translated independently: the access
\* for the k-th page is the one a request for that page alone would make.
\* A request for the page alone enters the call with the page's own
\* virtual address, so an access that falls back to the client's memory is
\* made at the virtual address of the bytes it transfers
C24_PagesIndependent ==
    \A i \in DOMAIN UserAccesses :
        UserAccesses[i].bk = "hmm" =>
            UserAccesses[i].addr = vmreq.address + UserAccesses[i].pdst

\* no two entries of the tracker rs carry the same register name
NamesOnce(rs) ==
    \A i, j \in DOMAIN rs : rs[i].regname = rs[j].regname => i = j

\* the register writes of the packet a step of the PM4 decoder completed in
\* the innermost buffer, in order
StepWrites ==
    LET d == Len(frames)
        f == frames[d]
        node == frames'[d].nodes[Len(frames'[d].nodes)]
    IN  IF node.pkttype = 3
        THEN RegWrites(node.opcode, node.words, f.vmid, AddrPlus(f.from, f.pos))
        ELSE <<>>

\* the step from tracker old to tracker new is the effect of the writes
\* ws: the entries of old keep their places and their names; an entry whose
\* name was written holds the value, the VMID and the address of the last
\* write to it; every other entry is an entry of old, untouched; the names
\* are those of old followed by the new names in the order they were first
\* written
TrackerStep(old, new, ws) ==
    LET nm(k) == umr_reg_name(ws[k].reg)
        last(name) == CHOOSE k \in DOMAIN ws :
                          nm(k) = name /\ \A k2 \in DOMAIN ws : k2 > k => nm(k2) # name
        fresh == SelectSeq([k \in DOMAIN ws |-> k],
                           LAMBDA k : /\ \A i \in DOMAIN old : old[i].regname # nm(k)
                                      /\ \A k2 \in 1..(k - 1) : nm(k2) # nm(k))
    IN  /\ NamesOnce(new)
        /\ Len(new) = Len(old) + Len(fresh)
        /\ \A i \in DOMAIN old : new[i].regname = old[i].regname
        /\ \A j \in DOMAIN fresh : new[Len(old) + j].regname = nm(fresh[j])
        /\ \A i \in DOMAIN new :
              IF \E k \in DOMAIN ws : nm(k) = new[i].regname
              THEN LET w == ws[last(new[i].regname)]
                   IN  /\ new[i].value = w.value
                       /\ new[i].vmid = w.vmid
                       /\ new[i].addr = w.addr
              ELSE /\ i \in DOMAIN old
                   /\ [new[i] EXCEPT !.used = 0] = [old[i] EXCEPT !.used = 0]

\* C25: the register tracker holds at most one entry per register name: a
\* write to a register already tracked overwrites that entry in place
\* (value, VMID and address), a write to a new name appends an entry at the
\* tail, and the relative order of the entries never changes
C25_OneEntryPerName ==
    [][(fmt = "pm4" /\ pc = "decode" /\ pc' = "decode") =>
          IF Len(frames') = Len(frames) /\ frames' # frames
          THEN TrackerStep(regs, regs', StepWrites)
          ELSE regs' = regs]_vars

\* a register was written a second time after another register had been
\* added: the tracker has two entries and has seen more writes than that
C25_OverwrittenInPlace ==
    /\ fmt = "pm4"
    /\ pc = "decode"
    /\ Len(frames) = 1
    /\ Len(regs) >= 2
    /\ Len(WritesOf(Top.nodes, FALSE)) > Len(regs)
    /\ \E k \in DOMAIN WritesOf(Top.nodes, FALSE) :
          /\ umr_reg_name(WritesOf(Top.nodes, FALSE)[k].reg) = regs[1].regname
          /\ WritesOf(Top.nodes, FALSE)[k].value # regs[1].value

\* rs is the tracker tr as it stood, the used marks apart, in the order of
\* the register names
Snapshot(rs, tr) ==
    LET bare(r) == [r EXCEPT !.used = 0]
    IN  /\ Len(rs) = Len(tr)
        /\ {bare(rs[i]) : i \in DOMAIN rs} = {bare(tr[i]) : i \in DOMAIN tr}
        /\ \A i, j \in DOMAIN rs :
              i < j => RegRank(rs[i].regname) < RegRank(rs[j].regname)

\* C26: the register list of a shader program is a snapshot: it holds
\* exactly the entries the tracker had when the dispatch or draw packet was
\* decoded, ordered by register name, and no later register write changes
\* it
C26_RegsAreSnapshot ==
    [][(fmt = "pm4" /\ pc = "decode" /\ pc' = "decode") =>
          /\ \A d \in DOMAIN frames :
                d <= Len(frames') =>
                    \A j \in DOMAIN frames[d].nodes :
                        /\ j <= Len(frames'[d].nodes)
                        /\ frames'[d].nodes[j] = frames[d].nodes[j]
          /\ (Len(frames') = Len(frames) /\ frames' # frames) =>
                LET ns == frames'[Len(frames)].nodes
                IN  \A k \in DOMAIN ns[Len(ns)].shader :
                        Snapshot(ns[Len(ns)].shader[k].regs, regs)]_vars

\* a shader was found inside an indirect buffer with two registers tracked,
\* and the packet after the indirect buffer wrote one of them again
C26_WrittenAfterSnapshot ==
    /\ fmt = "pm4"
    /\ pc = "decode"
    /\ Len(frames) = 1
    /\ Len(Top.nodes) = 2
    /\ ~Top.nodes[1].ib.null
    /\ \E j \in DOMAIN Top.nodes[1].ib.nodes :
          LET sh == Top.nodes[1].ib.nodes[j].shader
          IN  /\ sh # <<>>
              /\ Len(sh[1].regs) >= 2
              /\ \E i \in DOMAIN regs :
                    \E r \in DOMAIN sh[1].regs :
                        /\ sh[1].regs[r].regname = regs[i].regname
                        /\ sh[1].regs[r].value # regs[i].value

\* ------------------------------------------------------------------------
\* User queues: binding to a client (umr_parse_clientid)
\* ------------------------------------------------------------------------
MaxParses == 2

\* one entry of user_queue.client_info.queue[]
Queue(id, type, size, rptr, wptr) ==
    [queue_id |-> id, queue_type |-> type, rb_buf_size |-> size,
     hqd_rptr_value |-> rptr, rb_wptr_poll_value |-> wptr]

\* struct umr_user_queue, all zero
ZeroUq ==
    [client_type |-> "none", active |-> FALSE, qidx |-> 0, queue |-> <<>>]

\* the queues debugfs reports for the client: a ring that has wrapped, one
\* that has not, an idle one, and a compute queue next to a graphics queue
QueueTables ==
    {<<Queue(0, "gfx", 8, 6, 2)>>,
     <<Queue(0, "gfx", 8, 1, 5)>>,
     <<Queue(0, "sdma", 4, 2, 2)>>,
     <<Queue(0, "compute", 8, 1, 2), Queue(1, "gfx", 4, 3, 1)>>}

\* the client string: the client type, and the queue by id or by type
ClientIds ==
    [client_type : {"kfd", "kgd"}, use_type : BOOLEAN, queueid : {0, 1},
     queuetype : {"gfx", "compute"}]

\* what the call meets: a rumr tunnel and the answer of the server, or the
\* debugfs files of the device
ClientEnvs ==
    [rumr_active : {TRUE}, rumr_r : {0, -1}, outcome : {"parsed"},
     queue : {<<Queue(0, "gfx", 8, 6, 2)>>}]
    \cup [rumr_active : {FALSE}, rumr_r : {0},
          outcome : {"no clients file", "client not found", "no proc_info",
                     "no vm_pagetable_info", "unsupported gfx", "queue init failed",
                     "parsed"},
          queue : QueueTables]

\* the loop over the queues: the last queue that matches the request wins;
\* -1 when none does
SelectedQueue(cid, queue) ==
    LET match(x) == IF cid.use_type
                    THEN cid.queuetype = queue[x].queue_type
                    ELSE cid.queueid = queue[x].queue_id
        hits == {x \in DOMAIN queue : match(x)}
    IN  IF hits = {} THEN -1
        ELSE (CHOOSE x \in hits : \A y \in hits : y <= x) - 1

\* umr_parse_clientid(): the structure it returns and the one it leaves in
\* asic->options.user_queue
umr_parse_clientid_result(uq, cid, env) ==
    LET tmpq == uq
        retq0 == [ZeroUq EXCEPT !.qidx = -1]
        uq1 == [uq EXCEPT !.qidx = -1]
        bound == [client_type |-> cid.client_type, active |-> TRUE,
                  qidx |-> SelectedQueue(cid, env.queue), queue |-> env.queue]
    IN  IF env.rumr_active
        THEN IF env.rumr_r = 0
             THEN [retq |-> bound, user_queue |-> tmpq]
             ELSE [retq |-> retq0, user_queue |-> uq1]
        ELSE IF env.outcome = "parsed"
             THEN [retq |-> bound, user_queue |-> tmpq]
             ELSE [retq |-> retq0, user_queue |-> tmpq]

\* the call of umr_parse_clientid() made by umr_init_clientid()
umr_parse_clientid ==
    /\ UNCHANGED <<pktcore, vmcore, jobvars>>
    /\ uqpc \in {"init", "ready"}
    /\ nparse < MaxParses
    /\ \E cid \in ClientIds, env \in ClientEnvs :
          LET r == umr_parse_clientid_result(user_queue, cid, env)
          IN  /\ retq' = r.retq
              /\ user_queue' = r.user_queue
    /\ uqpc' = "parsed"
    /\ UNCHANGED <<nparse, ring, sqcmds, ringdata, stray, ringps>>

\* umr_init_clientid() stores what the parser returned
umr_init_clientid ==
    /\ UNCHANGED <<pktcore, vmcore, jobvars>>
    /\ uqpc = "parsed"
    /\ user_queue' = retq
    /\ uqpc' = "ready"
    /\ nparse' = nparse + 1
    /\ UNCHANGED <<retq, ring, sqcmds, ringdata, stray, ringps>>

\* ------------------------------------------------------------------------
\* User queues and kernel rings: umr_packet_decode_ring_ex
\* ------------------------------------------------------------------------
\* apply_start_stop(): -1 stands for the rptr (start) or the wptr (stop)
apply_start_stop(start, stop, rptr, wptr, ringsize) ==
    LET r == IF start = -1 /\ stop # -1 THEN [start |-> rptr, stop |-> rptr + stop]
             ELSE IF start # -1 /\ stop = -1 THEN [start |-> wptr - start, stop |-> wptr]
             ELSE IF start = -1 /\ stop = -1 THEN [start |-> rptr, stop |-> wptr]
             ELSE [start |-> start, stop |-> stop]
    IN  [r EXCEPT !.start = IF @ < 0 THEN ringsize + @ ELSE @]

\* the word at index i of the queue in GPU memory
QueueWord(i) ==
    100 + i

\* the ring names handed in: the user queue, a kernel ring, a name no
\* branch knows
RingNames ==
    {"uq", "gfx_0.0.0", "bogus"}

RingCalls ==
    [ringname : RingNames, halt_waves : BOOLEAN, opt_halt_waves : BOOLEAN,
     use_full_user_queue : BOOLEAN, rt : {"GUESS", "PM4"},
     start : {-1, 0, 2}, stop : {-1, 1}, ringsize : {0}]

\* the queue the user-queue state points at
BoundQueue ==
    user_queue.queue[user_queue.qidx + 1]

\* umr_packet_decode_ring_ex() up to the point where the ring is read: the
\* HALT command, the guess of the ring type, and for the user queue the
\* window to read
umr_packet_decode_ring_ex ==
    /\ UNCHANGED <<pktcore, vmcore, jobvars>>
    /\ uqpc = "ready"
    /\ \E c \in RingCalls :
          LET halt == c.halt_waves /\ c.opt_halt_waves
              uq == c.rt = "GUESS" /\ c.ringname = "uq"
              known == c.ringname # "bogus"
          IN  /\ sqcmds' = IF halt THEN Append(sqcmds, "HALT") ELSE sqcmds
              /\ IF uq /\ user_queue.active /\ user_queue.qidx + 1 \notin DOMAIN user_queue.queue
                 THEN \* client_info.queue[-1] is read
                      /\ uqpc' = "undefined"
                      /\ ring' = c
                      /\ UNCHANGED ringdata
                 ELSE IF uq /\ user_queue.active
                 THEN LET q == BoundQueue
                          idle == ~c.use_full_user_queue
                                  /\ q.rb_wptr_poll_value = q.hqd_rptr_value
                          w0 == IF c.use_full_user_queue
                                THEN [start |-> 0, stop |-> q.rb_buf_size]
                                ELSE apply_start_stop(c.start, c.stop, q.hqd_rptr_value,
                                                      q.rb_wptr_poll_value, q.rb_buf_size)
                          w == IF q.queue_type = "compute"
                               THEN [start |-> (w0.start * 16) % q.rb_buf_size,
                                     stop |-> (w0.stop * 16) % q.rb_buf_size]
                               ELSE w0
                      IN  IF idle
                          THEN /\ uqpc' = "cleanup"
                               /\ ring' = c
                               /\ UNCHANGED ringdata
                          ELSE /\ uqpc' = "uq read"
                               /\ ring' = [c EXCEPT !.start = w.start, !.stop = w.stop]
                               /\ ringdata' = [i \in 1..q.rb_buf_size |-> 0]
                 ELSE IF uq
                 THEN /\ uqpc' = "cleanup"
                      /\ ring' = c
                      /\ UNCHANGED ringdata
                 ELSE IF c.rt = "GUESS" /\ ~known
                 THEN \* return NULL
                      /\ uqpc' = "returned"
                      /\ ring' = c
                      /\ UNCHANGED ringdata
                 ELSE /\ uqpc' = "ring read"
                      /\ ring' = [c EXCEPT !.rt = "PM4"]
                      /\ UNCHANGED ringdata
    /\ ringps' = [null |-> TRUE]
    /\ UNCHANGED <<user_queue, retq, nparse, stray>>

\* buf with the n words of the queue from word from on stored at word
\* offset at; the words that fall behind the end of buf are not in it
StoreWords(b, at, from, n) ==
    [i \in DOMAIN b |->
        IF i - 1 >= at /\ i - 1 < at + n THEN QueueWord(from + (i - 1 - at)) ELSE b[i]]

\* the stores of the same copy that fall behind the end of buf
StrayWords(b, at, from, n) ==
    {<<k, QueueWord(from + (k - at))>> : k \in {j \in at..(at + n - 1) : j >= Len(b)}}

\* buf + n * 4 on a uint32_t pointer: word offset 4 * n
SecondOffset(n) ==
    n * 4

\* umr_read_user_queue_buffer(start, end, buf, len), called with the window
\* and the zeroed buffer; each umr_read_vram() may fail.  Then the tail of
\* the user-queue branch: the decode of the len words read
umr_read_user_queue_buffer ==
    /\ UNCHANGED <<pktcore, vmcore, jobvars>>
    /\ uqpc = "uq read"
    /\ \E fail1, fail2 \in BOOLEAN :
          LET q == BoundQueue
              start == ring.start
              end == ring.stop
              n == q.rb_buf_size - start
              b1 == StoreWords(ringdata, 0, start, n)
              b2 == StoreWords(b1, SecondOffset(n), 0, end)
              b3 == StoreWords(ringdata, 0, start, end - start)
          IN  IF start > end
              THEN IF fail1
                   THEN /\ ring' = [ring EXCEPT !.ringsize = 0]
                        /\ UNCHANGED <<ringdata, stray, ringps>>
                   ELSE IF fail2
                   THEN /\ ring' = [ring EXCEPT !.ringsize = 0]
                        /\ ringdata' = b1
                        /\ UNCHANGED <<stray, ringps>>
                   ELSE /\ ring' = [ring EXCEPT !.ringsize = n + end]
                        /\ ringdata' = b2
                        /\ stray' = StrayWords(b1, SecondOffset(n), 0, end)
                        /\ ringps' = [null |-> FALSE]
              ELSE IF fail1
                   THEN /\ ring' = [ring EXCEPT !.ringsize = 0]
                        /\ UNCHANGED <<ringdata, stray, ringps>>
                   ELSE /\ ring' = [ring EXCEPT !.ringsize = end - start]
                        /\ ringdata' = b3
                        /\ stray' = StrayWords(ringdata, 0, start, end - start)
                        /\ ringps' = [null |-> FALSE]
    /\ uqpc' = "cleanup"
    /\ UNCHANGED <<user_queue, retq, nparse, sqcmds>>

\* what the ring file of a kernel ring holds: nothing that can be read, or
\* rptr, wptr and four words of packets
RingFiles ==
    {[null |-> TRUE, rptr |-> 0, wptr |-> 0],
     [null |-> FALSE, rptr |-> 1, wptr |-> 3],
     [null |-> FALSE, rptr |-> 6, wptr |-> 6]}

\* the number of words the linearising loop copies, from start to stop
\* around a ring of ringsize words
LinearSize(start, stop, ringsize) ==
    IF start = stop THEN 0
    ELSE IF \E k \in 1..ringsize : (start + k) % ringsize = stop
    THEN CHOOSE k \in 1..ringsize :
             /\ (start + k) % ringsize = stop
             /\ \A j \in 1..(k - 1) : (start + j) % ringsize # stop
    ELSE ringsize

\* the kernel-ring branch: read the ring file, settle the window, copy it
\* into a linear buffer and decode that
read_ring_data ==
    /\ UNCHANGED <<pktcore, vmcore, jobvars>>
    /\ uqpc = "ring read"
    /\ \E f \in RingFiles :
          IF f.null
          THEN /\ ring' = [ring EXCEPT !.stop = IF @ # -1 THEN 0 ELSE @]
               /\ UNCHANGED <<ringdata, ringps>>
          ELSE LET ringsize == 4
                   stop0 == IF ring.stop # -1 /\ ring.stop * 4 >= 4 * ringsize
                            THEN ringsize ELSE ring.stop
                   only_active == ring.start = -1 /\ stop0 = -1
                   w == apply_start_stop(ring.start, stop0, f.rptr % ringsize,
                                         f.wptr % ringsize, ringsize)
                   stop == IF w.stop > ringsize THEN w.stop - ringsize ELSE w.stop
                   read == ~only_active \/ w.start # stop
               IN  /\ ring' = [ring EXCEPT !.start = w.start, !.stop = stop,
                                           !.ringsize = IF read
                                                        THEN LinearSize(w.start, stop, ringsize)
                                                        ELSE ringsize]
                   /\ ringdata' = [i \in 1..ringsize |-> QueueWord(i - 1)]
                   /\ ringps' = [null |-> ~read]
    /\ uqpc' = "cleanup"
    /\ UNCHANGED <<user_queue, retq, nparse, sqcmds, stray>>

\* the cleanup label: the RESUME command, and the return
decode_ring_cleanup ==
    /\ UNCHANGED <<pktcore, vmcore, jobvars>>
    /\ uqpc = "cleanup"
    /\ sqcmds' = IF ring.halt_waves /\ ring.opt_halt_waves
                  THEN Append(sqcmds, "RESUME") ELSE sqcmds
    /\ uqpc' = "returned"
    /\ UNCHANGED <<user_queue, retq, nparse, ring, ringdata, stray, ringps>>

InitUq ==
    /\ PktIdle
    /\ VmIdle
    /\ user_queue = ZeroUq
    /\ uqpc = "init"
    /\ retq = ZeroUq
    /\ nparse = 0
    /\ RingIdle
    /\ JobsIdle

NextUq ==
    \/ umr_parse_clientid
    \/ umr_init_clientid
    \/ umr_packet_decode_ring_ex
    \/ umr_read_user_queue_buffer
    \/ read_ring_data
    \/ decode_ring_cleanup

SpecUq ==
    InitUq /\ [][NextUq]_vars

\* C27: umr_parse_clientid leaves asic->options.user_queue equal to the
\* value it had on entry, on every return path: the parsed queue reaches the
\* caller through the return value only
C27_UserQueueRestored ==
    [][(uqpc' = "parsed" /\ uqpc # "parsed") => user_queue' = user_queue]_vars

\* C28: when umr_packet_decode_ring_ex issued the SQ HALT command on entry,
\* it has issued the RESUME command by the time it returns, whatever the
\* path: an unrecognised ring name, an inactive user queue, a ring that
\* cannot be read
C28_ResumedOnEveryReturn ==
    (uqpc = "returned" /\ sqcmds # <<>>) => sqcmds[Len(sqcmds)] = "RESUME"

\* umr_read_user_queue_buffer() was called and returned 0
UqReadDone ==
    /\ uqpc \in {"cleanup", "returned"}
    /\ ring.ringname = "uq"
    /\ ring.rt = "GUESS"
    /\ ~ringps.null

\* C29: a read of the user queue with start > end that succeeded filled the
\* buffer with the rb_buf_size - start words from start on, then with the
\* end words from offset 0 on, reported len = (rb_buf_size - start) + end,
\* and stored nothing outside those len words
C29_WrappedReadIsContiguous ==
    (UqReadDone /\ ring.start > ring.stop) =>
        LET n == BoundQueue.rb_buf_size - ring.start
        IN  /\ ring.ringsize = n + ring.stop
            /\ \A i \in 1..n : ringdata[i] = QueueWord(ring.start + i - 1)
            /\ \A i \in 1..ring.stop : ringdata[n + i] = QueueWord(i - 1)
            /\ \A i \in DOMAIN ringdata : i > n + ring.stop => ringdata[i] = 0
            /\ stray = {}

\* ------------------------------------------------------------------------
\* Activity panel: post-processing of a capture (post_process_capture)
\* ------------------------------------------------------------------------
MaxJobs == 11

\* the number of worker threads created
NumWorkers == 10

\* the arguments of worker i, as the creating loop computes them
PostProcessArgs(i, count) ==
    LET step == count \div NumWorkers
        first == i * step
        sum == first + step
    IN  [first_job |-> first,
         last_job |-> (IF sum < count THEN sum ELSE count) - 1]

\* post_process_capture() up to the creating loop: the jobs are sorted and
\* counted; without jobs no thread is created
post_process_capture ==
    /\ UNCHANGED <<pktcore, vmcore, uqvars>>
    /\ pppc = "sort"
    /\ pppc' = IF job_count # 0 THEN "create" ELSE "lanes"
    /\ UNCHANGED <<job_count, processed, pp_thread>>

\* one round of the creating loop: the arguments, and pthread_create()
pthread_create ==
    /\ UNCHANGED <<pktcore, vmcore, uqvars>>
    /\ pppc = "create"
    /\ LET i == Len(pp_thread)
           args == PostProcessArgs(i, job_count)
       IN  /\ pp_thread' = Append(pp_thread,
                                   [first_job |-> args.first_job, last_job |-> args.last_job,
                                    i |-> args.first_job, joined |-> FALSE, ended |-> FALSE])
           /\ pppc' = IF i + 1 < NumWorkers THEN "create" ELSE "join"
    /\ UNCHANGED <<job_count, processed>>

\* one step of a worker thread: postprocess() on the job at i, or the end
\* of the thread when the loop is over
timeline_post_proc_dma_fences ==
    /\ UNCHANGED <<pktcore, vmcore, uqvars>>
    /\ \E t \in DOMAIN pp_thread :
          LET th == pp_thread[t]
          IN  /\ ~th.ended
              /\ IF th.i <= th.last_job
                 THEN /\ processed' = [processed EXCEPT ![th.i + 1] = @ + 1]
                      /\ pp_thread' = [pp_thread EXCEPT ![t].i = @ + 1]
                 ELSE /\ pp_thread' = [pp_thread EXCEPT ![t].ended = TRUE]
                      /\ UNCHANGED processed
    /\ UNCHANGED <<job_count, pppc>>

\* one round of the joining loop: pthread_join() returns when the thread
\* has ended
pthread_join ==
    /\ UNCHANGED <<pktcore, vmcore, uqvars>>
    /\ pppc = "join"
    /\ \E t \in DOMAIN pp_thread :
          /\ ~pp_thread[t].joined
          /\ \A u \in 1..(t - 1) : pp_thread[u].joined
          /\ pp_thread[t].ended
          /\ pp_thread' = [pp_thread EXCEPT ![t].joined = TRUE]
          /\ pppc' = IF t = Len(pp_thread) THEN "lanes" ELSE "join"
    /\ UNCHANGED <<job_count, processed>>

\* the lane assignment: the loop over all jobs that follows the join
assign_lanes ==
    /\ UNCHANGED <<pktcore, vmcore, uqvars>>
    /\ pppc = "lanes"
    /\ pppc' = "done"
    /\ UNCHANGED <<job_count, processed, pp_thread>>

InitJobs ==
    /\ PktIdle
    /\ VmIdle
    /\ UqIdle
    /\ job_count \in 0..MaxJobs
    /\ processed = [i \in 1..job_count |-> 0]
    /\ pp_thread = <<>>
    /\ pppc = "sort"

NextJobs ==
    \/ post_process_capture
    \/ pthread_create
    \/ timeline_post_proc_dma_fences
    \/ pthread_join
    \/ assign_lanes

SpecJobs ==
    InitJobs /\ [][NextJobs]_vars

\* C30: the sorted job list is partitioned among the worker threads so that
\* every job index is processed exactly once, whatever the job count, and
\* every worker has finished before the lane assignment starts
C30_EveryJobOnce ==
    pppc \in {"lanes", "done"} =>
        /\ \A t \in DOMAIN pp_thread : pp_thread[t].ended
        /\ \A i \in DOMAIN processed : processed[i] = 1
====
